------------------------------ MODULE Uploads ------------------------------
(***************************************************************************)
(* Adding one file from the browser to a drive: the browser's send loop,   *)
(* Suite Manager's session and its chunk on the system disk, and the app   *)
(* agent, which appends the chunk to a partial on the drive and renames    *)
(* the partial into place.  A connection is cut while a request is under   *)
(* way (the request runs on), Suite Manager restarts or gives up on the    *)
(* agent, and the drive is pulled, losing what was not yet flushed.        *)
(***************************************************************************)
EXTENDS Naturals, Sequences

CONSTANTS
  Size,             \* pieces in the file
  ChunkSize,        \* pieces the browser sends at a time
  MaxUploadCuts,    \* bound: connections cut under a request
  MaxUploadDeaths,  \* bound: Suite Manager restarted or out of patience, or a day gone by
  MaxUploadPulls,   \* bound: the drive pulled, or found full
  MaxStops          \* bound: the owner's Stop, after which the file is dropped in again

VARIABLES
  session,   \* Suite Manager's record: open, and the offset it has confirmed
  inFlight,  \* the request whose chunk is on its way or being written, 0 for none
  staged,    \* whether the chunk file is on the system disk
  partial,   \* on the drive: the pieces written so far, and how many are flushed
  kept,      \* the finished file, in its folder
  browser,   \* the send loop: where it is, and the offset it goes on from
  requests,  \* the requests under way, wherever they have got to
  plugged,   \* the drive is there, open read-write
  crowded,   \* history: a request ran beside another's, or on an older copy of the session
  upsets     \* how much of each bound is used

uploadVars == <<session, inFlight, staged, partial, kept, browser, requests,
                plugged, crowded, upsets>>

Slots   == {1, 2}
Garbage == 0
TheFile == [i \in 1..Size |-> i]
Piece(offset) == SubSeq(TheFile, offset + 1, IF offset + ChunkSize < Size THEN offset + ChunkSize ELSE Size)
NoRequest == [kind |-> "none", pc |-> "done", offset |-> 0, ack |-> 0, left |-> <<>>,
              upto |-> 0, heard |-> FALSE, awaited |-> FALSE]
Absent  == [there |-> FALSE, pieces |-> <<>>, flushed |-> 0]
NoSession == [open |-> FALSE, ack |-> 0]

UploadTypeOK ==
  /\ session \in [open : BOOLEAN, ack : 0..Size]
  /\ inFlight \in Slots \cup {0}
  /\ partial.flushed <= Len(partial.pieces)
  /\ browser.offset \in 0..Size
  /\ \A s \in Slots : requests[s].kind = "none" <=> requests[s].pc = "done"

UploadInit ==
  /\ session = NoSession /\ inFlight = 0 /\ staged = FALSE
  /\ partial = Absent /\ kept = Absent
  /\ browser = [pc |-> "start", offset |-> 0]
  /\ requests = [s \in Slots |-> NoRequest]
  /\ plugged = TRUE /\ crowded = FALSE
  /\ upsets = [cut |-> 0, death |-> 0, pull |-> 0, stop |-> 0]

Doing(s, kind, pc) == requests[s].kind = kind /\ requests[s].pc = pc
Goes(s, pc)     == requests' = [requests EXCEPT ![s].pc = pc]
Others(s)       == Slots \ {s}
Upset(what, bound) == upsets[what] < bound /\ upsets' = [upsets EXCEPT ![what] = @ + 1]
Listening(s)    == requests[s].heard

(***************************************************************************)
(* The browser.  Each failure ends the same way: ask where the drive has   *)
(* the file, and carry on from there.                                      *)
(***************************************************************************)
Waiting == \E s \in Slots : Listening(s)
Asks(s, kind) ==
  /\ requests[s] = NoRequest /\ ~Waiting
  /\ requests' = [requests EXCEPT ![s] = [NoRequest EXCEPT !.kind = kind, !.pc = "read",
                    !.offset = browser.offset, !.heard = TRUE, !.awaited = TRUE]]
  /\ UNCHANGED <<session, inFlight, staged, partial, kept, browser, plugged, crowded, upsets>>

AsksToBegin(s)  == browser.pc \in {"start", "again"} /\ (\A r \in Slots : requests[r].kind # "cancel") /\ Asks(s, "begin")
SendsChunk(s)   == browser.pc = "send" /\ browser.offset < Size /\ Asks(s, "put")
AsksToFinish(s) == browser.pc = "send" /\ browser.offset = Size /\ Asks(s, "finish")

\* What the browser makes of an answer, or of a connection that was lost.
Offset(n) == [browser EXCEPT !.pc = "send", !.offset = n]
Hears(kind, answer, n) ==
  CASE answer = "ok" /\ kind = "finish" -> [browser EXCEPT !.pc = "added"]
    [] answer = "ok" -> Offset(n)
    [] answer = "refused" -> [browser EXCEPT !.pc = "failed"]
    [] answer = "later" /\ kind = "begin" -> [browser EXCEPT !.pc = IF @ = "start" THEN @ ELSE "send"]
    [] answer = "restart" /\ kind = "begin" -> [browser EXCEPT !.pc = IF @ = "start" THEN @ ELSE "failed"]
    [] OTHER -> [browser EXCEPT !.pc = "again"]

\* A request ends: its slot is free, and the browser hears of it if it still listens.
Answered(s, answer, n) ==
  /\ requests' = [requests EXCEPT ![s] = NoRequest]
  /\ browser' = IF Listening(s) THEN Hears(requests[s].kind, answer, n) ELSE browser

Cut(s) ==
  /\ Listening(s) /\ Upset("cut", MaxUploadCuts)
  /\ requests' = [requests EXCEPT ![s].heard = FALSE]
  /\ browser' = Hears(requests[s].kind, "later", 0)
  /\ UNCHANGED <<session, inFlight, staged, partial, kept, plugged, crowded>>

\* The owner stops the upload, which is cancelled on the drive, and drops the
\* same file in again.  A stop with a request still under way is left out: the
\* file then gets a session of its own, which that request does not touch.
Stop(s) ==
  /\ browser.pc \in {"send", "again"} /\ Upset("stop", MaxStops)
  /\ \A r \in Slots : requests[r] = NoRequest
  /\ requests' = [requests EXCEPT ![s] = [NoRequest EXCEPT !.kind = "cancel", !.pc = "read", !.awaited = TRUE]]
  /\ browser' = [pc |-> "start", offset |-> 0]
  /\ UNCHANGED <<session, inFlight, staged, partial, kept, plugged, crowded>>

(***************************************************************************)
(* Suite Manager.                                                          *)
(***************************************************************************)
ReadsSession(s) ==
  /\ requests[s].pc = "read"
  /\ LET kind == requests[s].kind IN
     \/ /\ kind = "begin" => plugged /\ (session.open \/ ~kept.there)
        /\ kind # "begin" => session.open
        /\ kind = "finish" => session.ack = Size
        /\ requests' = [requests EXCEPT ![s].ack = session.ack,
             ![s].pc = CASE kind \in {"begin", "put"} -> "over" [] kind = "finish" -> "check" [] OTHER -> "remove"]
        /\ UNCHANGED browser
     \/ ~session.open /\ kind = "begin" /\ kept.there /\ Answered(s, "refused", 0)
     \/ ~session.open /\ kind # "begin" /\ Answered(s, "restart", 0)
     \/ session.open /\ kind = "finish" /\ session.ack # Size /\ Answered(s, "restart", 0)
     \/ kind = "begin" /\ ~plugged /\ Answered(s, "later", 0)
  /\ UNCHANGED <<session, inFlight, staged, partial, kept, plugged, crowded, upsets>>

\* A chunk still arriving is dropped for the new request, one being written is
\* waited out.  What a put does next, up to the entry it makes for its chunk, runs
\* in the same turn as its takeover.
TakesOver(s) ==
  LET put   == requests[s].kind = "put"
      wrong == put /\ requests[s].offset # requests[s].ack
      ended == {r \in Slots : r = inFlight \/ (r = s /\ wrong)}
  IN /\ requests[s].pc = "over" /\ (inFlight # 0 => requests[inFlight].pc = "stage")
     /\ requests' = [r \in Slots |-> IF r \in ended THEN NoRequest
                                     ELSE IF r = s THEN [requests[s] EXCEPT !.pc = IF put THEN "stage" ELSE "offset"]
                                     ELSE requests[r]]
     /\ inFlight' = (IF put /\ ~wrong THEN s ELSE 0) /\ staged' = (staged /\ inFlight = 0)
     /\ browser' = IF \E r \in ended : Listening(r) THEN Hears("put", "later", 0) ELSE browser
     /\ UNCHANGED <<session, partial, kept, plugged, crowded, upsets>>

\* The last part is still being written, or other files have every place for a chunk.
Busy(s) ==
  /\ requests[s].pc = "over"
  /\ IF inFlight = 0 THEN requests[s].kind = "put" ELSE requests[inFlight].pc # "stage"
  /\ Answered(s, "later", 0)
  /\ UNCHANGED <<session, inFlight, staged, partial, kept, plugged, crowded, upsets>>

Stages(s) ==
  /\ Doing(s, "put", "stage") /\ Listening(s) /\ Goes(s, "open") /\ staged' = TRUE
  /\ UNCHANGED <<session, inFlight, partial, kept, browser, plugged, crowded, upsets>>

\* A connection cut under a chunk still arriving ends the request.
Broken(s) ==
  /\ Doing(s, "put", "stage") /\ ~Listening(s)
  /\ Answered(s, "later", 0) /\ inFlight' = (IF inFlight = s THEN 0 ELSE inFlight)
  /\ UNCHANGED <<session, staged, partial, kept, plugged, crowded, upsets>>

\* Only once the agent has answered is a chunk counted, or an upload let go of.
SavesSession(s) ==
  /\ requests[s].pc = "save"
  /\ session' = [open |-> TRUE, ack |-> requests[s].upto]
  /\ crowded' = (crowded \/ requests[s].ack # session.ack)
  /\ inFlight' = (IF inFlight = s THEN 0 ELSE inFlight)
  /\ Answered(s, "ok", requests[s].upto)
  /\ UNCHANGED <<staged, partial, kept, plugged, upsets>>

DropsSession(s) ==
  /\ requests[s].pc = "forget"
  /\ session' = NoSession /\ staged' = FALSE /\ Answered(s, "ok", 0)
  /\ UNCHANGED <<inFlight, partial, kept, plugged, crowded, upsets>>

\* What stops waiting for the agent: a restart, which stops everything, and an
\* append that did not answer within its three minutes.  The agent works on.
AtTheAgent(s) == requests[s].pc \in {"open", "write", "fail", "offset", "check", "remove"}
LeftAlone(r)  == [r EXCEPT !.heard = FALSE, !.awaited = FALSE]

Restart ==
  /\ Upset("death", MaxUploadDeaths)
  /\ inFlight' = 0 /\ staged' = FALSE
  /\ requests' = [s \in Slots |-> IF AtTheAgent(s) THEN LeftAlone(requests[s]) ELSE NoRequest]
  /\ browser' = IF \E s \in Slots : Listening(s)
                THEN Hears(requests[CHOOSE s \in Slots : Listening(s)].kind, "later", 0) ELSE browser
  /\ UNCHANGED <<session, partial, kept, plugged, crowded>>

GivesUp(s) ==
  /\ AtTheAgent(s) /\ requests[s].awaited /\ requests[s].kind = "put" /\ Upset("death", MaxUploadDeaths)
  /\ inFlight' = 0 /\ staged' = FALSE
  /\ requests' = [requests EXCEPT ![s] = LeftAlone(@)]
  /\ browser' = IF Listening(s) THEN Hears("put", "later", 0) ELSE browser
  /\ UNCHANGED <<session, partial, kept, plugged, crowded>>

\* A day without a request: at its next start Suite Manager lets go of the session,
\* and the agent of its half on the drive, each by its own clock.
DayPasses ==
  /\ Upset("death", MaxUploadDeaths) /\ \A s \in Slots : requests[s] = NoRequest
  /\ \/ session' = NoSession /\ inFlight' = 0 /\ staged' = FALSE /\ UNCHANGED partial
     \/ plugged /\ partial' = Absent /\ UNCHANGED <<session, inFlight, staged>>
  /\ UNCHANGED <<kept, browser, requests, plugged, crowded>>

(***************************************************************************)
(* The agent, the only writer to the drive.                                *)
(***************************************************************************)
\* The agent's answer, if anyone still waits for it: `lost` also lets the session go.
AgentRefuses(s, answer, lost) ==
  /\ Answered(s, answer, 0)
  /\ inFlight' = (IF inFlight = s THEN 0 ELSE inFlight)
  /\ session' = IF lost /\ requests[s].awaited THEN NoSession ELSE session
AgentDone(s, pc, upto) ==
  /\ requests' = [requests EXCEPT ![s] = IF @.awaited THEN [@ EXCEPT !.pc = pc, !.upto = upto] ELSE NoRequest]
  /\ UNCHANGED <<session, inFlight, browser>>

Beside(s) == crowded' = \/ crowded
                        \/ \E r \in Others(s) : AtTheAgent(r)
                        \/ requests[s].ack # session.ack

\* Where an upload stands: what Suite Manager has not confirmed is cut off.
Trimmed(upto) == [there |-> TRUE, pieces |-> SubSeq(partial.pieces, 1, upto),
                  flushed |-> IF partial.flushed < upto THEN partial.flushed ELSE upto]
Lesser(a, b) == IF a < b THEN a ELSE b

UploadOffset(s) ==
  /\ Doing(s, "begin", "offset") /\ Beside(s)
  /\ \/ /\ plugged
        /\ LET upto == Lesser(Len(partial.pieces), requests[s].ack)
           IN partial' = Trimmed(upto) /\ AgentDone(s, "save", upto)
     \/ ~plugged /\ AgentRefuses(s, "later", FALSE) /\ UNCHANGED partial
  /\ UNCHANGED <<staged, kept, plugged, upsets>>

AppendOpens(s) ==
  /\ Doing(s, "put", "open") /\ Beside(s)
  /\ LET size == Len(partial.pieces) IN
     \/ ~plugged /\ AgentRefuses(s, "later", FALSE) /\ staged' = FALSE
     \/ plugged /\ ~staged /\ AgentRefuses(s, "refused", FALSE) /\ UNCHANGED staged
     \/ plugged /\ staged /\ ~partial.there /\ AgentRefuses(s, "restart", TRUE) /\ staged' = FALSE
     \/ /\ plugged /\ staged /\ partial.there /\ size # requests[s].offset
        /\ AgentRefuses(s, "restart", FALSE) /\ staged' = FALSE
     \/ /\ plugged /\ staged /\ partial.there /\ size = requests[s].offset
        /\ requests' = [requests EXCEPT ![s].pc = "write", ![s].left = Piece(size),
                          ![s].upto = size + Len(Piece(size))]
        /\ UNCHANGED <<staged, session, inFlight, browser>>
  /\ UNCHANGED <<partial, kept, plugged, upsets>>

AppendWrites(s) ==
  /\ Doing(s, "put", "write") /\ requests[s].left # <<>> /\ Beside(s)
  /\ partial' = [partial EXCEPT !.pieces = Append(@, Head(requests[s].left))]
  /\ requests' = [requests EXCEPT ![s].left = Tail(@)]
  /\ UNCHANGED <<session, inFlight, staged, kept, browser, plugged, upsets>>

AppendFlushes(s) ==
  /\ Doing(s, "put", "write") /\ requests[s].left = <<>> /\ Beside(s)
  /\ partial' = [partial EXCEPT !.flushed = Len(partial.pieces)]
  /\ staged' = FALSE
  /\ AgentDone(s, "save", requests[s].upto)
  /\ UNCHANGED <<kept, plugged, upsets>>

\* The drive left under the write.
AppendFails(s) ==
  /\ Doing(s, "put", "fail") /\ staged' = FALSE
  /\ AgentRefuses(s, "later", FALSE)
  /\ UNCHANGED <<partial, kept, plugged, crowded, upsets>>

\* A write the drive has no room for takes the partial with it.
DriveFull(s) ==
  /\ Doing(s, "put", "write") /\ requests[s].left # <<>> /\ Upset("pull", MaxUploadPulls)
  /\ staged' = FALSE
  /\ partial' = Absent /\ AgentRefuses(s, "refused", TRUE)
  /\ UNCHANGED <<kept, plugged, crowded>>

UploadFinish(s) ==
  /\ Doing(s, "finish", "check") /\ Beside(s)
  /\ \/ ~plugged /\ AgentRefuses(s, "later", FALSE) /\ UNCHANGED <<partial, kept>>
     \/ plugged /\ ~partial.there /\ AgentRefuses(s, "restart", TRUE) /\ UNCHANGED <<partial, kept>>
     \/ /\ plugged /\ partial.there /\ Len(partial.pieces) # Size
        /\ AgentRefuses(s, "restart", FALSE) /\ UNCHANGED <<partial, kept>>
     \/ /\ plugged /\ partial.there /\ Len(partial.pieces) = Size /\ kept.there
        /\ AgentRefuses(s, "refused", TRUE) /\ partial' = Absent /\ UNCHANGED kept
     \/ /\ plugged /\ partial.there /\ Len(partial.pieces) = Size /\ ~kept.there
        /\ kept' = partial /\ partial' = Absent /\ AgentDone(s, "forget", 0)
  /\ UNCHANGED <<staged, plugged, upsets>>

UploadCancel(s) ==
  /\ Doing(s, "cancel", "remove") /\ Beside(s)
  /\ staged' = FALSE
  /\ partial' = IF plugged THEN Absent ELSE partial
  /\ AgentDone(s, "forget", 0)
  /\ UNCHANGED <<kept, plugged, upsets>>

(***************************************************************************)
(* The drive.  What was not flushed is not known to be whole once the cable *)
(* has been pulled.                                                        *)
(***************************************************************************)
Torn(file) == {[file EXCEPT !.pieces = [i \in 1..n |-> IF i <= file.flushed THEN file.pieces[i] ELSE Garbage]] :
                 n \in file.flushed..Len(file.pieces)}

CablePulled ==
  /\ plugged /\ Upset("pull", MaxUploadPulls)
  /\ plugged' = FALSE
  /\ partial' \in Torn(partial)
  /\ requests' = [s \in Slots |-> IF Doing(s, "put", "write") THEN [requests[s] EXCEPT !.pc = "fail"]
                                  ELSE requests[s]]
  /\ UNCHANGED <<session, inFlight, staged, kept, browser, crowded>>

CableBack ==
  /\ ~plugged /\ plugged' = TRUE
  /\ UNCHANGED <<session, inFlight, staged, partial, kept, browser, requests, crowded, upsets>>

RequestStep(s) ==
  \/ ReadsSession(s) \/ TakesOver(s) \/ Busy(s) \/ Stages(s) \/ Broken(s)
  \/ SavesSession(s) \/ DropsSession(s)
  \/ UploadOffset(s) \/ AppendOpens(s) \/ AppendWrites(s) \/ AppendFlushes(s) \/ AppendFails(s)
  \/ DriveFull(s) \/ UploadFinish(s) \/ UploadCancel(s)

UploadNext ==
  \/ \E s \in Slots : AsksToBegin(s) \/ SendsChunk(s) \/ AsksToFinish(s) \/ Cut(s) \/ Stop(s)
                      \/ GivesUp(s) \/ RequestStep(s)
  \/ Restart \/ DayPasses \/ CablePulled \/ CableBack

UploadSpec == UploadInit /\ [][UploadNext]_uploadVars

(***************************************************************************)
(* Properties.                                                             *)
(***************************************************************************)
\* A finished upload is the file that was sent, whatever was cut, retried, torn
\* or taken over on the way, as long as no request reached the drive beside
\* another of the same upload or with a copy of the session it no longer has.
FileIsWhole == kept.there /\ ~crowded => kept.pieces = TheFile

\* The browser tells the owner a file was added only if it is on the drive.
AddedIsKept == browser.pc = "added" => kept.there

\* A cut connection never leaves a gap or a repeat.
NeverAGapOrARepeat == kept.there => kept.pieces = TheFile
=============================================================================
