----------------------------- MODULE DaemonWire -----------------------------
(***************************************************************************)
(* What the worker reads from a nix-daemon: the frames that precede every  *)
(* reply, the reply of each operation, and the NAR that has no length of   *)
(* its own.  A word of the protocol is one token; the fields of a reply    *)
(* the worker throws away unread of their meaning are one token together.  *)
(*                                                                         *)
(* Each reader takes the tokens still to be read and returns whether it    *)
(* got its answer, the answer, and the tokens it left.                     *)
(***************************************************************************)
EXTENDS Integers, Sequences

Got(answer, rest) == [ok |-> TRUE, answer |-> answer, rest |-> rest]
Failed(how, rest) == [ok |-> FALSE, answer |-> how, rest |-> rest]
Rest(s, i) == SubSeq(s, i, Len(s))

(* A word of the connection as it is read; past the end, the stream is     *)
(* closed.                                                                 *)
WordAt(s, i) == IF i \in 1 .. Len(s) THEN s[i] ELSE "eof"

(* The words of s that are in T, in their order.                           *)
Keep(s, T) ==
    LET upTo[n \in 0 .. Len(s)] ==
            IF n = 0 THEN <<>>
            ELSE IF s[n] \in T THEN Append(upTo[n - 1], s[n]) ELSE upTo[n - 1]
    IN  upTo[Len(s)]

-----------------------------------------------------------------------------
(* The frames before a reply.                                              *)

LogFrames == {"next", "logLine"}
Frames == LogFrames \cup {"start", "stop", "progress"}

(* Mutant: the builder's own lines are drained and not kept.               *)
LogOfNextOnly(s) == Keep(s, {"next"})

(* The lines handed to on_line and to the log.                             *)
LogOf(s) == Keep(s, LogFrames)

(* STDERR_ERROR's payload: read to its end, so the stream stays in step.   *)
ReadRemoteError(s, i) ==
    IF WordAt(s, i) = "message" THEN Failed("remote", Rest(s, i + 1))
    ELSE Failed("io", <<>>)

(* Reads up to STDERR_LAST or STDERR_ERROR.                                *)
DrainStderr(s) ==
    LET ends == {i \in 1 .. Len(s) : s[i] \notin Frames}
        end == CHOOSE i \in ends : \A j \in ends : i <= j
    IN  CASE ends = {} -> Failed("io", <<>>)
          [] ends # {} /\ s[end] = "last" -> Got(LogOf(SubSeq(s, 1, end)), Rest(s, end + 1))
          [] ends # {} /\ s[end] = "error" -> ReadRemoteError(s, end + 1)
          [] OTHER -> Failed("unknownTag", Rest(s, end + 1))

-----------------------------------------------------------------------------
(* The words of a NAR: its tokens, and one for what has a length of its    *)
(* own.                                                                    *)
NarWords == {"nix-archive-1", "(", ")", "type", "regular", "executable", "", "contents", "bytes",
             "symlink", "target", "directory", "entry", "name", "node"}

(* The NAR.  CopyNode is the index after the node that starts at i, or 0   *)
(* when the node is malformed or the stream ends in it.                    *)

Expect(s, i, words) == \A k \in 1 .. Len(words) : WordAt(s, i + k - 1) = words[k]

(* Regular files, executable or not, and the bytes with their padding.     *)
CopyRegular(s, i) ==
    LET contents == IF Expect(s, i, <<"executable", "">>) THEN i + 2 ELSE i
    IN  IF Expect(s, contents, <<"contents", "bytes", ")">>) THEN contents + 3 ELSE 0

CopyNode(s, start) ==
    LET node[i \in Nat] ==
            IF ~ Expect(s, i, <<"(", "type">>) THEN 0
            ELSE CASE WordAt(s, i + 2) = "regular" -> CopyRegular(s, i + 3)
                   [] WordAt(s, i + 2) = "symlink" ->
                        IF Expect(s, i + 3, <<"target", "name", ")">>) THEN i + 6 ELSE 0
                   [] WordAt(s, i + 2) = "directory" ->
                        LET entries[j \in Nat] ==
                                CASE WordAt(s, j) = ")" -> j + 1
                                  [] Expect(s, j, <<"entry", "(", "name", "name", "node">>) ->
                                       LET after == node[j + 5]
                                       IN  IF WordAt(s, after) = ")" THEN entries[after + 1]
                                           ELSE 0
                                  [] OTHER -> 0
                        IN  entries[i + 3]
                   [] OTHER -> 0
    IN  node[start]

(* The archive's bytes, passed on word for word.                           *)
CopyNar(s) ==
    LET after == IF WordAt(s, 1) = "nix-archive-1" THEN CopyNode(s, 2) ELSE 0
    IN  IF after = 0 THEN Failed("nar", <<>>)
        ELSE Got(SubSeq(s, 1, after - 1), Rest(s, after))

-----------------------------------------------------------------------------
(* The operations.                                                         *)

(* The handshake: magic, a version that is new enough, the daemon's own    *)
(* version, its trust in this client as one word, and the first drain.     *)
Open(s) ==
    CASE WordAt(s, 1) # "magic" -> Failed("badMagic", Rest(s, 2))
      [] WordAt(s, 1) = "magic" /\ WordAt(s, 2) # "version" ->
           Failed("unsupportedVersion", Rest(s, 3))
      [] OTHER -> IF WordAt(s, 3) = "daemonVersion" /\ WordAt(s, 4) = "trusted"
                  THEN DrainStderr(Rest(s, 5)) ELSE Failed("io", <<>>)

SetOptions(s) == DrainStderr(s)

(* Mutant: the realisations of a built derivation are left unread.         *)
BuildDerivationKeepsMap(s) ==
    LET d == DrainStderr(s)
        status == WordAt(d.rest, 1)
    IN  IF ~ d.ok THEN d
        ELSE IF status \in {"succeeded", "unsuccessful"} /\ WordAt(d.rest, 2) \in {"none", "one"}
             THEN Got([status |-> status, log |-> d.answer], Rest(d.rest, 3))
        ELSE Failed("io", <<>>)

(* The log, the status with its message and times, and the realisations.   *)
BuildDerivation(s) ==
    LET d == DrainStderr(s)
        status == WordAt(d.rest, 1)
        realisations == WordAt(d.rest, 2)
    IN  IF ~ d.ok THEN d
        ELSE CASE status \in {"succeeded", "unsuccessful"} /\ realisations = "none" ->
                    Got([status |-> status, log |-> d.answer], Rest(d.rest, 3))
               [] status \in {"succeeded", "unsuccessful"} /\ realisations = "one"
                      /\ WordAt(d.rest, 3) = "realisation" ->
                    Got([status |-> status, log |-> d.answer], Rest(d.rest, 4))
               [] OTHER -> Failed("io", <<>>)

(* Whether the path is valid, and its metadata if it is.                   *)
QueryPathInfo(s) ==
    LET d == DrainStderr(s)
    IN  IF ~ d.ok THEN d
        ELSE CASE WordAt(d.rest, 1) = "invalid" -> Got("invalid", Rest(d.rest, 2))
               [] WordAt(d.rest, 1) = "valid" /\ WordAt(d.rest, 2) = "info" ->
                    Got("valid", Rest(d.rest, 3))
               [] OTHER -> Failed("io", <<>>)

NarFromPath(s) ==
    LET d == DrainStderr(s) IN IF d.ok THEN CopyNar(d.rest) ELSE d

AddToStoreNar(s) == DrainStderr(s)

Read(kind, s) ==
    CASE kind = "open" -> Open(s)
      [] kind = "setOptions" -> SetOptions(s)
      [] kind = "query" -> QueryPathInfo(s)
      [] kind = "add" -> AddToStoreNar(s)
      [] kind = "build" -> BuildDerivation(s)
      [] kind = "nar" -> NarFromPath(s)

-----------------------------------------------------------------------------
(* What a nix-daemon sends.                                                *)

Remote == <<"error", "message">>
Chatter == {<<>>, <<"start", "progress", "next", "stop">>}
BuildLogs == {<<>>, <<"start", "logLine", "next", "logLine", "stop">>}

NarOf(node) == <<"nix-archive-1">> \o node
ExecutableNode == <<"(", "type", "regular", "executable", "", "contents", "bytes", ")">>
SymlinkNode == <<"(", "type", "symlink", "target", "name", ")">>
DirectoryNode(nodes) ==
    LET entry(n) == <<"entry", "(", "name", "name", "node">> \o n \o <<")">>
        entries[k \in 0 .. Len(nodes)] ==
            IF k = 0 THEN <<>> ELSE entries[k - 1] \o entry(nodes[k])
    IN  <<"(", "type", "directory">> \o entries[Len(nodes)] \o <<")">>

OpenReplies ==
    {<<"magic", "version", "daemonVersion", "trusted", "last">>,
     <<"magic", "oldVersion">>, <<"noMagic">>}
SetOptionsReplies == {<<"last">>, Remote}
QueryReplies(valid) ==
    {c \o (IF valid THEN <<"last", "valid", "info">> ELSE <<"last", "invalid">>) : c \in Chatter}
      \cup {Remote}
BuildReplies ==
    {l \o <<"last", "unsuccessful", "none">> : l \in BuildLogs} \cup
    {l \o <<"last", "succeeded", "one", "realisation">> : l \in BuildLogs} \cup
    {l \o Remote : l \in BuildLogs}
=============================================================================
