----------------------------- MODULE OracleClient -----------------------------
(***************************************************************************)
(* The client of the persistent oracle process: concurrent callers of      *)
(* Ping and Execute, which share one pair of pipes and carry no request    *)
(* numbers, and concurrent callers of Close, which does not take the lock. *)
(* The oracle may die at any time.                                         *)
(*                                                                         *)
(* External: the oracle reads requests in order, writes one line for each  *)
(* and nothing else, and ends when its stdin does; a line fits the buffer  *)
(* of the scanner.                                                         *)
(***************************************************************************)
EXTENDS Naturals, Sequences

CONSTANTS
    Callers, Closers,
    Calls               \* bound on the calls of one caller

Free == "free"       \* of the mutex

ASSUME OracleClientAssumption ==
    /\ Callers \cap Closers = {} /\ Closers # {} /\ Calls \in Nat
    /\ Free \notin Callers

VARIABLES
    at,      \* where each goroutine is
    calls,   \* calls a caller has begun; it names the request
    mu,      \* the mutex: free, or its holder
    closed,  \* the channel closed
    once,    \* sync.Once of Close: new, running or over
    stdin,   \* the pipe to the oracle: its requests, open or closed
    stdout,  \* the pipe from the oracle: its lines, read end open or closed
    oracle,  \* up or exited
    result   \* what a caller's last call returned

oracleVars == <<at, calls, mu, closed, once, stdin, stdout, oracle, result>>

Lines == {"answer", "error", "garbled"}
Request(c) == <<c, calls[c]>>

(* NewOracleClient.                                                        *)
OracleInit ==
    /\ at = [p \in Callers \cup Closers |-> "idle"]
    /\ calls = [c \in Callers |-> 0]
    /\ mu = Free
    /\ closed = FALSE
    /\ once = "new"
    /\ stdin = [open |-> TRUE, queue |-> <<>>]
    /\ stdout = [open |-> TRUE, queue |-> <<>>]
    /\ oracle = "up"
    /\ result = [c \in Callers |-> <<"none">>]

Go(p, from, to) == at[p] = from /\ at' = [at EXCEPT ![p] = to]

-----------------------------------------------------------------------------
(* roundTrip.                                                              *)

Begin(c) ==
    /\ Go(c, "idle", "lock")
    /\ calls[c] < Calls
    /\ calls' = [calls EXCEPT ![c] = @ + 1]
    /\ UNCHANGED <<mu, closed, once, stdin, stdout, oracle, result>>

MutLock(c) ==
    /\ Go(c, "lock", "check")
    /\ mu' = c
    /\ UNCHANGED <<calls, closed, once, stdin, stdout, oracle, result>>

Lock(c) ==
    /\ Go(c, "lock", "check")
    /\ mu = Free
    /\ mu' = c
    /\ UNCHANGED <<calls, closed, once, stdin, stdout, oracle, result>>

(* Every return of roundTrip unlocks.                                      *)
Return(c, from, answer) ==
    /\ Go(c, from, "idle")
    /\ mu' = Free
    /\ result' = [result EXCEPT ![c] = answer]

MutReturnClosed(c) ==
    /\ Go(c, "check", "idle")
    /\ closed
    /\ result' = [result EXCEPT ![c] = <<"client closed">>]
    /\ UNCHANGED <<calls, mu, closed, once, stdin, stdout, oracle>>

ReturnClosed(c) ==
    /\ closed
    /\ Return(c, "check", <<"client closed">>)
    /\ UNCHANGED <<calls, closed, once, stdin, stdout, oracle>>

CheckOpen(c) ==
    /\ ~closed
    /\ Go(c, "check", "write")
    /\ UNCHANGED <<calls, mu, closed, once, stdin, stdout, oracle, result>>

(* The pipe may have been closed since, or the oracle may be gone.         *)
Write(c) ==
    /\ Go(c, "write", "scan")
    /\ stdin.open
    /\ oracle = "up"
    /\ stdin' = [stdin EXCEPT !.queue = Append(@, Request(c))]
    /\ UNCHANGED <<calls, mu, closed, once, stdout, oracle, result>>

WriteFails(c) ==
    /\ ~stdin.open \/ oracle = "exited"
    /\ Return(c, "write", <<"write failed">>)
    /\ UNCHANGED <<calls, closed, once, stdin, stdout, oracle>>

Decoded(c, line) ==
    IF line.kind = "answer" THEN <<"answer", line.request>> ELSE <<line.kind>>

(* Scan returns the next line, also one a dead oracle left behind.         *)
Scan(c) ==
    /\ stdout.open
    /\ stdout.queue # <<>>
    /\ Return(c, "scan", Decoded(c, Head(stdout.queue)))
    /\ stdout' = [stdout EXCEPT !.queue = Tail(@)]
    /\ UNCHANGED <<calls, closed, once, stdin, oracle>>

(* End of file once the oracle is gone, or Wait closed the pipe.           *)
ScanFails(c) ==
    /\ ~stdout.open \/ (oracle = "exited" /\ stdout.queue = <<>>)
    /\ Return(c, "scan", <<"no response">>)
    /\ UNCHANGED <<calls, closed, once, stdin, stdout, oracle>>

-----------------------------------------------------------------------------
(* Close: the first caller does it, the others wait until it is done.      *)

CloseFirst(k) ==
    /\ Go(k, "idle", "stdin")
    /\ once = "new"
    /\ once' = "running"
    /\ closed' = TRUE
    /\ UNCHANGED <<calls, mu, stdin, stdout, oracle, result>>

CloseStdin(k) ==
    /\ Go(k, "stdin", "wait")
    /\ stdin' = [stdin EXCEPT !.open = FALSE]
    /\ UNCHANGED <<calls, mu, closed, once, stdout, oracle, result>>

(* cmd.Wait: the process has ended; the read end of stdout is closed,      *)
(* unread lines are lost.                                                  *)
Wait(k) ==
    /\ Go(k, "wait", "done")
    /\ oracle = "exited"
    /\ once' = "over"
    /\ stdout' = [open |-> FALSE, queue |-> <<>>]
    /\ UNCHANGED <<calls, mu, closed, stdin, oracle, result>>

CloseAgain(k) ==
    /\ Go(k, "idle", "done")
    /\ once = "over"
    /\ UNCHANGED <<calls, mu, closed, once, stdin, stdout, oracle, result>>

-----------------------------------------------------------------------------
(* The oracle process.                                                     *)

Answer(kind) ==
    /\ oracle = "up"
    /\ stdin.queue # <<>>
    /\ stdin' = [stdin EXCEPT !.queue = Tail(@)]
    /\ stdout' = [stdout EXCEPT !.queue =
                      Append(@, [kind |-> kind, request |-> Head(stdin.queue)])]
    /\ UNCHANGED <<at, calls, mu, closed, once, oracle, result>>

(* It has read its stdin to the end.                                       *)
EndOfInput ==
    /\ oracle = "up"
    /\ ~stdin.open
    /\ stdin.queue = <<>>
    /\ oracle' = "exited"
    /\ UNCHANGED <<at, calls, mu, closed, once, stdin, stdout, result>>

Die ==
    /\ oracle = "up"
    /\ oracle' = "exited"
    /\ UNCHANGED <<at, calls, mu, closed, once, stdin, stdout, result>>

-----------------------------------------------------------------------------
Step(c) ==
    \/ Lock(c) \/ ReturnClosed(c) \/ CheckOpen(c) \/ Write(c) \/ WriteFails(c) \/ Scan(c)
    \/ ScanFails(c)

Finish(k) == CloseStdin(k) \/ Wait(k)

OracleNext ==
    \/ \E c \in Callers : Begin(c) \/ Step(c)
    \/ \E k \in Closers : CloseFirst(k) \/ CloseAgain(k) \/ Finish(k)
    \/ \E kind \in Lines : Answer(kind)
    \/ EndOfInput
    \/ Die

(* Goroutines keep running; a waiting Lock succeeds when the mutex is free *)
(* again and again (Go's mutex starves no one); the oracle answers what it *)
(* has read and ends with its input, or it crashes.                        *)
OracleSpec ==
    /\ OracleInit /\ [][OracleNext]_oracleVars
    /\ \A c \in Callers : WF_oracleVars(Step(c)) /\ SF_oracleVars(Lock(c))
    /\ \A k \in Closers : WF_oracleVars(Finish(k))
    /\ WF_oracleVars((\E kind \in Lines : Answer(kind)) \/ EndOfInput)

-----------------------------------------------------------------------------
(* Properties.                                                             *)

(* No caller gets the answer to another request, an earlier one of its own *)
(* included, although requests are not numbered, callers and Close run     *)
(* concurrently and any call may fail half way; and at most one request is *)
(* under way (the oracle's configuration is global to its process).        *)
AnswersOwnRequest ==
    /\ \A c \in Callers :
          at[c] = "idle" /\ result[c][1] = "answer" => result[c][2] = Request(c)
    /\ Len(stdin.queue) + Len(stdout.queue) <= 1

(* Every call comes back: Ping and Execute, and Close even with a request  *)
(* under way, whatever the oracle does.                                    *)
EveryCallReturns ==
    /\ \A c \in Callers : at[c] # "idle" ~> at[c] = "idle"
    /\ \A k \in Closers : at[k] # "idle" ~> at[k] = "done"

=============================================================================
