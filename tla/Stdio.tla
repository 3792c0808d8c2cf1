-------------------------------- MODULE Stdio --------------------------------
(***************************************************************************)
(* mcpd over stdio: a loop that reads one JSON-RPC message per line, one   *)
(* goroutine per request, and one writer, joined by a bounded channel and  *)
(* shut down when the input ends.                                          *)
(*                                                                         *)
(* Sources: cmd/mcpd/stdio.go (serveStdio), internal/rpc/rpc.go            *)
(* (ProcessJSONRPC), internal/rpc/resources.go (HandleResourcesRead, which *)
(* sends some answers itself, before ProcessJSONRPC sends them again).     *)
(*                                                                         *)
(* Messages come in any order and the input may end after any of them.     *)
(***************************************************************************)
EXTENDS Naturals, Sequences, FiniteSets

CONSTANTS Lines,      \* the input lines
          Kind,       \* what each line holds
          EventSize,  \* capacity of session.Event (16 in the code)
          Nothing     \* no value

LineKinds == {"blank", "malformed", "notification", "request", "early"}

ASSUME StdioAssumption ==
    /\ Kind \in [Lines -> LineKinds]
    /\ EventSize \in Nat \ {0}
    /\ Nothing \notin Lines
    /\ \A l \in Lines, k \in {1, 2} : Nothing # <<l, k>>

VARIABLES
    unread,    \* lines not scanned yet
    main,      \* serveStdio's goroutine
    bad,       \* the malformed line whose parse error it is sending
    running,   \* inflight: requests whose goroutine has not called Done
    sent,      \* answers put on session.Event so far
    event,     \* session.Event
    closed,    \* close(session.Event) was called
    writing,   \* the answer the writer took from the channel
    written,   \* answers written to out
    ended      \* close(written): the writer returned

stdioVars == <<unread, main, bad, running, sent, event, closed, writing, written, ended>>

\* How many answers a line gets: none for a blank line or a notification, a
\* parse error, one response - and two for a resource answered from the cache
\* or refused early, which HandleResourcesRead and ProcessJSONRPC both send.
Owed(l) ==
    CASE Kind[l] \in {"blank", "notification"} -> 0
      [] Kind[l] = "early" -> 2
      [] OTHER -> 1

AnswersTo(l) == {l} \X (1..Owed(l))
AllAnswers   == UNION {AnswersTo(l) : l \in Lines}
Elements(s)  == {s[i] : i \in DOMAIN s}

StdioInit ==
    /\ unread = Lines
    /\ main = "reading" /\ bad = Nothing
    /\ running = {} /\ sent = {}
    /\ event = <<>> /\ closed = FALSE
    /\ writing = Nothing /\ written = {} /\ ended = FALSE

-----------------------------------------------------------------------------
(* serveStdio                                                              *)

\* sc.Scan: a blank line is skipped, a malformed one gets a parse error from
\* this goroutine itself, anything else a goroutine of its own.
Scan(l) ==
    /\ main = "reading"
    /\ l \in unread
    /\ unread' = unread \ {l}
    /\ CASE Kind[l] = "blank" -> UNCHANGED <<main, bad, running>>
         [] Kind[l] = "malformed" -> main' = "sending" /\ bad' = l /\ UNCHANGED running
         [] OTHER -> running' = running \cup {l} /\ UNCHANGED <<main, bad>>
    /\ UNCHANGED <<sent, event, closed, writing, written, ended>>

\* A send on session.Event waits for room.
SendEvent(a) ==
    /\ Len(event) < EventSize
    /\ event' = Append(event, a)
    /\ sent' = sent \cup {a}

SendParseError ==
    /\ main = "sending"
    /\ SendEvent(<<bad, 1>>)
    /\ main' = "reading" /\ bad' = Nothing
    /\ UNCHANGED <<unread, running, closed, writing, written, ended>>

\* The input ends, or the scanner gives up on it.
EndOfInput ==
    /\ main = "reading"
    /\ main' = "waiting"
    /\ UNCHANGED <<unread, bad, running, sent, event, closed, writing, written, ended>>

\* Mutant: the channel is closed without inflight.Wait.
CloseOutput_NoWait ==
    /\ main = "waiting"
    /\ closed' = TRUE
    /\ main' = "closed"
    /\ UNCHANGED <<unread, bad, running, sent, event, writing, written, ended>>

\* inflight.Wait, then close(session.Event).
CloseOutput ==
    /\ main = "waiting"
    /\ running = {}
    /\ closed' = TRUE
    /\ main' = "closed"
    /\ UNCHANGED <<unread, bad, running, sent, event, writing, written, ended>>

\* Mutant: the process exits without waiting for the writer.
Exit_NoFlush ==
    /\ main = "closed"
    /\ main' = "exited"
    /\ UNCHANGED <<unread, bad, running, sent, event, closed, writing, written, ended>>

\* <-written, and serveStdio returns.
Exit ==
    /\ main = "closed"
    /\ ended
    /\ main' = "exited"
    /\ UNCHANGED <<unread, bad, running, sent, event, closed, writing, written, ended>>

-----------------------------------------------------------------------------
(* The request goroutines and the writer                                   *)

\* ProcessJSONRPC, or HandleResourcesRead before it, sends the next answer.
Respond(l, k) ==
    /\ l \in running
    /\ k \in 1..Owed(l)
    /\ <<l, k>> \notin sent
    /\ \A j \in 1..k - 1 : <<l, j>> \in sent
    /\ SendEvent(<<l, k>>)
    /\ UNCHANGED <<unread, main, bad, running, closed, writing, written, ended>>

\* Mutant: the early return for notifications skips inflight.Done.
Done_NotForNotifications(l) ==
    /\ l \in running
    /\ Kind[l] # "notification"
    /\ AnswersTo(l) \subseteq sent
    /\ running' = running \ {l}
    /\ UNCHANGED <<unread, main, bad, sent, event, closed, writing, written, ended>>

\* The handler returns: inflight.Done.
Done(l) ==
    /\ l \in running
    /\ AnswersTo(l) \subseteq sent
    /\ running' = running \ {l}
    /\ UNCHANGED <<unread, main, bad, sent, event, closed, writing, written, ended>>

\* The writer takes a message from the channel, also after it was closed ...
Receive ==
    /\ writing = Nothing
    /\ event # <<>>
    /\ writing' = Head(event)
    /\ event' = Tail(event)
    /\ UNCHANGED <<unread, main, bad, running, sent, closed, written, ended>>

\* ... and writes and flushes it.
Write ==
    /\ writing # Nothing
    /\ written' = written \cup {writing}
    /\ writing' = Nothing
    /\ UNCHANGED <<unread, main, bad, running, sent, event, closed, ended>>

\* Mutant: the writer stops at close, whatever the channel still holds.
WriterEnds_Undrained ==
    /\ writing = Nothing /\ closed
    /\ ~ended /\ ended' = TRUE
    /\ UNCHANGED <<unread, main, bad, running, sent, event, closed, writing, written>>

\* The range loop ends when the channel is closed and empty.
WriterEnds ==
    /\ writing = Nothing /\ closed /\ event = <<>>
    /\ ~ended /\ ended' = TRUE
    /\ UNCHANGED <<unread, main, bad, running, sent, event, closed, writing, written>>

\* Nothing is left to do.
Terminated == main = "exited" /\ UNCHANGED stdioVars

-----------------------------------------------------------------------------

Main    == SendParseError \/ CloseOutput \/ Exit
Serve(l) == (\E k \in 1..2 : Respond(l, k)) \/ Done(l)
Writer  == Receive \/ Write \/ WriterEnds

StdioNext ==
    \/ \E l \in Lines : Scan(l) \/ Serve(l)
    \/ EndOfInput
    \/ Main
    \/ Writer
    \/ Terminated

StdioSpec == StdioInit /\ [][StdioNext]_stdioVars

\* Goroutines run on and worker contexts time out, so handlers return; the
\* client reads its answers.  Nothing makes the client send or close.
StdioFairSpec ==
    /\ StdioSpec
    /\ WF_stdioVars(Main) /\ WF_stdioVars(Writer)
    /\ \A l \in Lines : WF_stdioVars(Serve(l))

-----------------------------------------------------------------------------
(* Properties                                                              *)

\* Every variable has the values the code can give it, and the channel never
\* holds more than it can.
StdioTypeOK ==
    /\ unread \subseteq Lines
    /\ main \in {"reading", "sending", "waiting", "closed", "exited"}
    /\ bad \in Lines \cup {Nothing} /\ (main = "sending" => bad \in Lines \ unread /\ Kind[bad] = "malformed")
    /\ running \subseteq Lines
    /\ sent \subseteq AllAnswers /\ written \subseteq AllAnswers
    /\ event \in Seq(AllAnswers) /\ Len(event) <= EventSize
    /\ writing \in AllAnswers \cup {Nothing}
    /\ closed \in BOOLEAN /\ ended \in BOOLEAN

\* Once session.Event is closed nothing can still send on it: no request is
\* in flight and the reading loop has no parse error to send.  (A send on a
\* closed channel would panic and lose every answer not written.)
NoSendAfterClose ==
    closed => running = {} /\ main \in {"closed", "exited"}

\* When serveStdio returns, every line it read has had all its answers written
\* to out: none is lost in the channel or in the writer.
ExitFlushesAll ==
    main = "exited" => \A l \in Lines \ unread : AnswersTo(l) \subseteq written

\* The reading loop, the handlers and the writer together keep the promise of
\* Answering: answers appear one by one, none twice, and the process stops
\* only when none is missing.
Promise == INSTANCE Answering WITH
    read <- Lines \ unread, answered <- written, stopped <- main = "exited"

KeepsPromise == Promise!Spec

\* Once the input has ended the process exits, with the channel full or not.
Exits == (main = "waiting") ~> (main = "exited")

=============================================================================
