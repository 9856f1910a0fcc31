----------------------------- MODULE MCTransfer -----------------------------
(* Three inputs: chains and forks in every order of the wire, an input     *)
(* that refers to itself, and a cycle.                                     *)
EXTENDS Transfer

MCIndex == 1 .. 3
Graph(edges) == [i \in MCIndex |-> {j \in MCIndex : <<i, j>> \in edges}]
MCGraphs ==
    {Graph({<<a, b>>, <<b, c>>}) : <<a, b, c>> \in
        {t \in MCIndex \X MCIndex \X MCIndex : Cardinality({t[1], t[2], t[3]}) = 3}} \cup
    {Graph({<<a, b>> : b \in MCIndex \ {a}}) : a \in MCIndex} \cup
    {Graph({<<1, 1>>, <<1, 2>>, <<1, 3>>, <<2, 3>>}), Graph({<<1, 2>>, <<2, 1>>})}

(* A build makes an executable, or a directory of a symlink.               *)
MCTrees == {ExecutableNode, DirectoryNode(<<SymlinkNode>>)}
=============================================================================
