------------------------------ MODULE Replies ------------------------------
(***************************************************************************)
(* Long answers.  A bridge forwards the first REPLY_MAX_CHARS of an answer *)
(* (truncate_reply), stores all of it in a file named after the request    *)
(* (Bridge._store_reply) and says so in the message; `cxpeer read ID`      *)
(* (cli._cmd_read) prints the file whose name begins with the eight        *)
(* characters the message has given.                                       *)
(*                                                                         *)
(* Every turn ends in a thread of its own, and the bridges of all threads  *)
(* share one tree of files.  The file is opened, which creates it empty,   *)
(* and written after that; either may fail, and the bridge may die.        *)
(***************************************************************************)
EXTENDS Naturals

CONSTANTS
    Requests,   \* requests with an answer
    Chars,      \* how long the answer of each is
    Limit,      \* REPLY_MAX_CHARS
    ShortId,    \* the first eight characters of each request's id
    WithoutMatch \* no file

ASSUME RepliesAssumption ==
    /\ Limit \in Nat /\ Chars \in [Requests -> Nat]
    /\ WithoutMatch \notin Requests

VARIABLES
    answer,   \* where on_turn_ended is with the answer to each request
    stored,   \* how much of the answer is in its file, or that there is none
    note,     \* what the requester was sent
    reading,  \* the request whose file the requester's `cxpeer read` has found
    got       \* what that has printed

repliesVars == <<answer, stored, note, reading, got>>

RepliesInit ==
    /\ answer  = [r \in Requests |-> "turn"]
    /\ stored  = [r \in Requests |-> "no file"]
    /\ note    = [r \in Requests |-> "none"]
    /\ reading = [r \in Requests |-> WithoutMatch]
    /\ got     = [r \in Requests |-> "nothing"]

Answers(r, from, to) == answer[r] = from /\ answer' = [answer EXCEPT ![r] = to]

-----------------------------------------------------------------------------
(* The bridge.                                                             *)

\* truncate_reply
IsCut(r) == Chars[r] > Limit

SendWhole(r) ==
    /\ ~IsCut(r) /\ Answers(r, "turn", "sent")
    /\ note' = [note EXCEPT ![r] = "all of it"]
    /\ UNCHANGED <<stored, reading, got>>

CreateFile(r) ==
    /\ IsCut(r) /\ Answers(r, "turn", "writing")
    /\ stored' = [stored EXCEPT ![r] = "part"]
    /\ UNCHANGED <<note, reading, got>>

WriteFile(r) ==
    /\ Answers(r, "writing", "stored")
    /\ stored' = [stored EXCEPT ![r] = "whole"]
    /\ UNCHANGED <<note, reading, got>>

\* mkdir, open or write raises an OSError: what has been written stays.
StoreFails(r) ==
    /\ \/ IsCut(r) /\ Answers(r, "turn", "not stored")
       \/ Answers(r, "writing", "not stored")
    /\ UNCHANGED <<stored, note, reading, got>>

\* The message names the file if it was written, the command in any case.
SendCut(r) ==
    /\ \/ /\ Answers(r, "stored", "sent")
          /\ note' = [note EXCEPT ![r] = "cut, with path"]
       \/ /\ Answers(r, "not stored", "sent")
          /\ note' = [note EXCEPT ![r] = "cut, without path"]
    /\ UNCHANGED <<stored, reading, got>>

BridgeDies(r) ==
    /\ answer[r] \notin {"sent", "dead"}
    /\ answer' = [answer EXCEPT ![r] = "dead"]
    /\ UNCHANGED <<stored, note, reading, got>>

-----------------------------------------------------------------------------
(* cxpeer read, by somebody who has the message.                           *)

FilesFor(r) == {q \in Requests : ShortId[q] = ShortId[r] /\ stored[q] # "no file"}

\* Mutant: the first of several files is taken.
FindFile_First(r) ==
    /\ note[r] \in {"cut, with path", "cut, without path"} /\ got[r] = "nothing"
    /\ reading[r] = WithoutMatch
    /\ IF FilesFor(r) = {}
       THEN got' = [got EXCEPT ![r] = "not found"] /\ UNCHANGED reading
       ELSE /\ \E q \in FilesFor(r) : reading' = [reading EXCEPT ![r] = q]
            /\ UNCHANGED got
    /\ UNCHANGED <<answer, stored, note>>

FindFile(r) ==
    /\ note[r] \in {"cut, with path", "cut, without path"} /\ got[r] = "nothing"
    /\ reading[r] = WithoutMatch
    /\ \/ /\ FilesFor(r) = {} /\ got' = [got EXCEPT ![r] = "not found"]
          /\ UNCHANGED reading
       \/ /\ \E q, s \in FilesFor(r) : q # s
          /\ got' = [got EXCEPT ![r] = "ambiguous"]
          /\ UNCHANGED reading
       \/ /\ \E q \in FilesFor(r) :
                FilesFor(r) = {q} /\ reading' = [reading EXCEPT ![r] = q]
          /\ UNCHANGED got
    /\ UNCHANGED <<answer, stored, note>>

PrintFile(r) ==
    /\ reading[r] # WithoutMatch
    /\ got' = [got EXCEPT ![r] = IF reading[r] # r THEN "another's answer"
                                 ELSE stored[r]]
    /\ reading' = [reading EXCEPT ![r] = WithoutMatch]
    /\ UNCHANGED <<answer, stored, note>>

RepliesNext ==
    \E r \in Requests :
        \/ SendWhole(r) \/ CreateFile(r) \/ WriteFile(r) \/ StoreFails(r)
        \/ SendCut(r) \/ BridgeDies(r) \/ FindFile(r) \/ PrintFile(r)

RepliesSpec == RepliesInit /\ [][RepliesNext]_repliesVars

-----------------------------------------------------------------------------
\* Every variable holds a value the program can give it.
RepliesTypeOK ==
    /\ answer \in [Requests -> {"turn", "writing", "stored", "not stored",
                                "sent", "dead"}]
    /\ stored \in [Requests -> {"no file", "part", "whole"}]
    /\ note \in [Requests -> {"none", "all of it", "cut, with path",
                              "cut, without path"}]
    /\ reading \in [Requests -> Requests \cup {WithoutMatch}]
    /\ got \in [Requests -> {"nothing", "not found", "ambiguous", "part",
                             "whole", "another's answer"}]

\* README: "full text: cxpeer read ID": who was sent a message that names the
\* file reads all of the answer, and nobody else's, or is told that the short
\* id is not enough; however many bridges store answers at the time.
NotedReplyCanBeRead ==
    \A r \in Requests :
        note[r] = "cut, with path" => got[r] \in {"nothing", "whole", "ambiguous"}
=============================================================================
