------------------------------ MODULE PlotQueue ------------------------------
(***************************************************************************)
(* The programs run one after the other from a terminal, the plotting      *)
(* process gplt that outlives them, and the message queue and semaphore    *)
(* between them: syslib, appl/access (GINITP, GENDP), gplt (the main       *)
(* loop), GPEND.                                                           *)
(*                                                                         *)
(* A program looks for gplt (CCHECK), starts it if need be (CSPROC), and   *)
(* sends requests of one packet or several, each answered by one reply.    *)
(* gplt holds the semaphore while it serves the queue.  Both may die at    *)
(* any moment, and CCHECK may lose patience at any moment.                 *)
(*                                                                         *)
(* Queues, semaphores and gplt processes are numbered by the program that  *)
(* created them.  A call to the system is an action, with what follows it  *)
(* in the program; two calls are one where nobody but the program looks    *)
(* (semget and semctl in CSPROC) or the second undoes the first (the poll  *)
(* of the semaphore).  Left out: the debug files, the key passed on when   *)
(* there is no terminal, programs that share a terminal at the same time,  *)
(* full queues, replies of several packets, and the device driver, which   *)
(* gplt deals with by the same routines.                                   *)
(***************************************************************************)
EXTENDS Naturals, Sequences

CONSTANTS
    MaxRun,     \* bound: programs run one after the other
    MaxPack,    \* bound: packets of a request
    MaxFault    \* bound: programs killed and gplt processes that die

ASSUME PlotQueueAssumption ==
    MaxRun \in Nat \ {0} /\ MaxPack \in Nat \ {0} /\ MaxFault \in Nat

VARIABLES
    mq, sem,            \* the queue and the semaphore found by the key, 0 if none
    free,               \* the semaphore is 1
    toGplt, toApp,      \* messages of type 1 and 2 on each queue
    pc, run, prog,      \* the program: where it is, its number, its kind
    mbchan, smchan,     \* its queue and semaphore
    req, left,          \* what it asked last; packets of it not sent yet
    taken,              \* what it took for the answer to that
    blank,              \* no gplt lived when it began
    gplt,               \* the gplt processes
    faults, upset       \* deaths so far; one of them, or a hasty check, did harm

ipc   == <<mq, sem, free, toGplt, toApp>>
app   == <<pc, run, prog, mbchan, smchan, req, left, taken, blank>>
vars  == <<mq, sem, free, toGplt, toApp, pc, run, prog, mbchan, smchan, req,
           left, taken, blank, gplt, faults, upset>>

Run     == 1 .. MaxRun
Id      == Run \cup {0}
\* A program that plots leaves gplt running (GENDP (0)) or ends it; GPEND
\* only ends it.
Prog    == {"leave", "quit", "gpend"}
Func    == {"none", "check", "init", "plot", "leave", "quit"}
Request == Id \X (Func \cup {"ack", "stop"})
Packet  == [req : Request, n : 0 .. MaxPack]
Loop    == {"read", "more", "work"}
Starting == {"born", "lookup", "grab"}

TypeOK ==
    /\ mq \in Id /\ sem \in Id /\ free \in BOOLEAN
    /\ toGplt \in [Run -> Seq(Packet)] /\ toApp \in [Run -> Seq(Request)]
    /\ pc \in {"none", "queue", "lock", "test", "poll", "absent", "fork",
               "found", "more", "ack", "wait", "next"}
    /\ run \in Id /\ prog \in Prog /\ mbchan \in Id /\ smchan \in Id
    /\ req \in Func /\ left \in 0 .. MaxPack /\ taken \in Request
    /\ blank \in BOOLEAN
    /\ gplt \in [Run -> [pc : Loop \cup Starting \cup {"dead", "end"}, chan : Id,
                         sem : Id, req : Request, need : 0 .. MaxPack]]
    /\ faults \in 0 .. MaxFault /\ upset \in BOOLEAN

Dead == [pc |-> "dead", chan |-> 0, sem |-> 0, req |-> <<0, "none">>, need |-> 0]

Init ==
    /\ mq = 0 /\ sem = 0 /\ free = FALSE
    /\ toGplt = [q \in Run |-> <<>>] /\ toApp = [q \in Run |-> <<>>]
    /\ pc = "none" /\ run = 0 /\ prog = "leave" /\ mbchan = 0 /\ smchan = 0
    /\ req = "none" /\ left = 0 /\ taken = <<0, "none">> /\ blank = TRUE
    /\ gplt = [g \in Run |-> Dead]
    /\ faults = 0 /\ upset = FALSE

Corpse(g) == [Dead EXCEPT !.chan = gplt[g].chan]
Living == {g \in Run : gplt[g].pc # "dead"}
Mine(f) == <<run, f>>

\* A gplt that reads the queue q, or is about to.
Serves(g, q) == gplt[g].pc \in Starting \/ (gplt[g].pc \in Loop /\ gplt[g].chan = q)

-----------------------------------------------------------------------------
\* CSEND on a queue that may have been removed.
Send(box, q, m) == IF q # 0 /\ q = mq THEN [box EXCEPT ![q] = Append(@, m)] ELSE box

\* CENDMQ: with the queue go its messages.
Remove(q) ==
    IF q = mq /\ q # 0
    THEN /\ mq' = 0
         /\ toGplt' = [toGplt EXCEPT ![q] = <<>>] /\ toApp' = [toApp EXCEPT ![q] = <<>>]
    ELSE UNCHANGED <<mq, toGplt, toApp>>

\* CSFREE.
FreeSem(s) == sem' = (IF sem = s THEN 0 ELSE sem) /\ free' = (free /\ sem # s)

\* CGETMQ with initmq: the queue is created if there is none.
GetQueue == mq' = (IF mq = 0 THEN run ELSE mq) /\ mbchan' = mq'

Goto(l) == pc' = l

-----------------------------------------------------------------------------
\* The user runs a program.
Begin(p) ==
    /\ pc = "none" /\ run < MaxRun
    /\ run' = run + 1 /\ prog' = p /\ Goto("queue")
    /\ mbchan' = 0 /\ smchan' = 0 /\ req' = "none" /\ left' = 0
    /\ taken' = <<0, "none">> /\ blank' = (Living = {})
    /\ UNCHANGED <<ipc, gplt, faults, upset>>

\* CCHECK.
Queue ==
    /\ pc = "queue"
    /\ GetQueue /\ smchan' = sem /\ Goto("lock")
    /\ UNCHANGED <<sem, free, toGplt, toApp, run, prog, req, left, taken, blank,
                   gplt, faults, upset>>

Lock ==
    /\ pc = "lock"
    /\ Goto(IF sem = 0 \/ sem # smchan THEN "absent" ELSE "test")
    /\ UNCHANGED <<ipc, run, prog, mbchan, smchan, req, left, taken, blank,
                   gplt, faults, upset>>

\* The semaphore is polled.  If it has just been removed the program fails
\* (GPEND removes the queue); if it is held gplt is asked for a sign of life.
Test ==
    /\ pc = "test"
    /\ \/ /\ sem # smchan /\ Goto("none")
          /\ IF prog = "gpend" THEN Remove(mbchan) ELSE UNCHANGED <<mq, toGplt, toApp>>
       \/ /\ sem = smchan /\ free /\ Goto("found")
          /\ UNCHANGED <<mq, toGplt, toApp>>
       \/ /\ sem = smchan /\ ~free /\ Goto("poll")
          /\ toGplt' = Send(toGplt, mbchan, [req |-> Mine("check"), n |-> 1])
          /\ UNCHANGED <<mq, toApp>>
    /\ UNCHANGED <<sem, free, run, prog, mbchan, smchan, req, left, taken, blank,
                   gplt, faults, upset>>

\* Any message is taken for a sign of life.
BugPoll ==
    /\ pc = "poll" /\ toApp[mbchan] # <<>>
    /\ toApp' = [toApp EXCEPT ![mbchan] = Tail(@)]
    /\ Goto("found")
    /\ UNCHANGED <<mq, sem, free, toGplt, run, prog, mbchan, smchan, req, left,
                   taken, blank, gplt, faults, upset>>

\* Whatever is not the answer is thrown away.
Poll ==
    /\ pc = "poll" /\ toApp[mbchan] # <<>>
    /\ toApp' = [toApp EXCEPT ![mbchan] = Tail(@)]
    /\ Goto(IF Head(toApp[mbchan])[2] = "check" THEN "found" ELSE "poll")
    /\ UNCHANGED <<mq, sem, free, toGplt, run, prog, mbchan, smchan, req, left,
                   taken, blank, gplt, faults, upset>>

\* The semaphore stays.
BugGiveUp ==
    /\ pc = "poll" /\ toApp[mbchan] = <<>>
    /\ toGplt' = [toGplt EXCEPT ![mbchan] = <<>>]
    /\ Goto("absent")
    /\ upset' = \E g \in Run : Serves(g, mbchan)
    /\ UNCHANGED <<mq, sem, free, toApp, run, prog, mbchan, smchan, req, left,
                   taken, blank, gplt, faults>>

\* No answer after NCHECK waits: requests are thrown away and the semaphore
\* is removed.
GiveUp ==
    /\ pc = "poll" /\ toApp[mbchan] = <<>>
    /\ toGplt' = [toGplt EXCEPT ![mbchan] = <<>>]
    /\ FreeSem(smchan) /\ Goto("absent")
    /\ upset' = \E g \in Run : Serves(g, mbchan)
    /\ UNCHANGED <<mq, toApp, run, prog, mbchan, smchan, req, left, taken, blank,
                   gplt, faults>>

\* CSPROC up to the fork; GPEND removes the queue and ends.
Install ==
    /\ pc = "absent" /\ prog # "gpend"
    /\ GetQueue
    /\ sem' = (IF sem = 0 THEN run ELSE sem) /\ free' = (free \/ sem = 0)
    /\ Goto("fork")
    /\ UNCHANGED <<toGplt, toApp, run, prog, smchan, req, left, taken, blank,
                   gplt, faults, upset>>

NothingToEnd ==
    /\ pc = "absent" /\ prog = "gpend"
    /\ Remove(mbchan) /\ Goto("none")
    /\ UNCHANGED <<sem, free, run, prog, mbchan, smchan, req, left, taken, blank,
                   gplt, faults, upset>>

Fork ==
    /\ pc = "fork"
    /\ gplt' = [gplt EXCEPT ![run] = [Dead EXCEPT !.pc = "born"]]
    /\ Goto("found")
    /\ UNCHANGED <<ipc, run, prog, mbchan, smchan, req, left, taken, blank,
                   faults, upset>>

\* What the program asks next: GINITP, a plot, GENDP.
Asks ==
    IF pc = "found" THEN "init"
    ELSE IF req = "init" /\ prog # "gpend" THEN "plot"
    ELSE IF prog = "leave" THEN "leave" ELSE "quit"

\* GPUT, the first packet.
Ask(n) ==
    /\ pc = "found" \/ (pc = "next" /\ req \notin {"leave", "quit"})
    /\ Asks # "plot" => n = 1
    /\ req' = Asks /\ left' = n - 1 /\ taken' = <<0, "none">>
    /\ toGplt' = Send(toGplt, mbchan, [req |-> Mine(Asks), n |-> n])
    /\ Goto(IF n = 1 THEN "wait" ELSE "more")
    /\ UNCHANGED <<mq, sem, free, toApp, run, prog, mbchan, smchan, blank,
                   gplt, faults, upset>>

\* GPUT, the others, each of which is acknowledged.
AskMore ==
    /\ pc = "more"
    /\ toGplt' = Send(toGplt, mbchan, [req |-> Mine(req), n |-> 0])
    /\ left' = left - 1 /\ Goto("ack")
    /\ UNCHANGED <<mq, sem, free, toApp, run, prog, mbchan, smchan, req, taken,
                   blank, gplt, faults, upset>>

\* One packet too many.
BugReceive ==
    /\ pc \in {"ack", "wait"} /\ toApp[mbchan] # <<>>
    /\ toApp' = [toApp EXCEPT ![mbchan] = Tail(@)]
    /\ taken' = Head(toApp[mbchan])
    /\ Goto(IF pc = "wait" THEN "next" ELSE IF left >= 0 THEN "more" ELSE "wait")
    /\ UNCHANGED <<mq, sem, free, toGplt, run, prog, mbchan, smchan, req, left,
                   blank, gplt, faults, upset>>

\* GRECV in GPUT, and GGET: any message is taken.
Receive ==
    /\ pc \in {"ack", "wait"} /\ toApp[mbchan] # <<>>
    /\ toApp' = [toApp EXCEPT ![mbchan] = Tail(@)]
    /\ taken' = Head(toApp[mbchan])
    /\ Goto(IF pc = "wait" THEN "next" ELSE IF left > 0 THEN "more" ELSE "wait")
    /\ UNCHANGED <<mq, sem, free, toGplt, run, prog, mbchan, smchan, req, left,
                   blank, gplt, faults, upset>>

\* The end of GENDP: the queue is removed if gplt was ended.
End ==
    /\ pc = "next" /\ req \in {"leave", "quit"}
    /\ IF req = "quit" THEN Remove(mbchan) ELSE UNCHANGED <<mq, toGplt, toApp>>
    /\ Goto("none")
    /\ UNCHANGED <<sem, free, run, prog, mbchan, smchan, req, left, taken, blank,
                   gplt, faults, upset>>

-----------------------------------------------------------------------------
\* CIPROC in gplt.
Attach(g) ==
    /\ gplt[g].pc = "born"
    /\ gplt' = [gplt EXCEPT ![g].pc = "lookup", ![g].chan = mq]
    /\ UNCHANGED <<ipc, app, faults, upset>>

\* CSGRAB: the semaphore is looked up, then waited for.
Lookup(g) ==
    /\ gplt[g].pc = "lookup"
    /\ gplt' = [gplt EXCEPT ![g].pc = "grab", ![g].sem = sem]
    /\ UNCHANGED <<ipc, app, faults, upset>>

Grab(g) ==
    /\ gplt[g].pc = "grab" /\ sem = gplt[g].sem /\ sem # 0 /\ free
    /\ free' = FALSE
    /\ gplt' = [gplt EXCEPT ![g].pc = IF gplt[g].chan = 0 THEN "end" ELSE "read"]
    /\ UNCHANGED <<mq, sem, toGplt, toApp, app, faults, upset>>

\* No semaphore, or removed while gplt waited: a message is sent, as a reply.
Stop(g) ==
    /\ gplt[g].pc = "grab" /\ (sem # gplt[g].sem \/ sem = 0)
    /\ toApp' = Send(toApp, gplt[g].chan, <<g, "stop">>)
    /\ gplt' = [gplt EXCEPT ![g] = Corpse(g)]
    /\ UNCHANGED <<mq, sem, free, toGplt, app, faults, upset>>

HasPacket(g) == gplt[g].chan # 0 /\ gplt[g].chan = mq /\ toGplt[mq] # <<>>
TakePacket(g) == toGplt' = [toGplt EXCEPT ![mq] = Tail(@)]

\* GGETB.  The first packet says how many there are.  One that is not a first
\* packet says anything.
ReadFirst(g) ==
    /\ gplt[g].pc = "read" /\ HasPacket(g) /\ TakePacket(g)
    /\ LET m == Head(toGplt[mq])
       IN \E need \in IF m.n > 0 THEN {m.n - 1} ELSE 0 .. MaxPack - 1 :
             gplt' = [gplt EXCEPT
                 ![g].req  = IF m.n > 0 THEN m.req ELSE <<m.req[1], "none">>,
                 ![g].need = need,
                 ![g].pc   = IF need > 0 THEN "more" ELSE "work"]
    /\ UNCHANGED <<mq, sem, free, toApp, app, faults, upset>>

\* GGETB, the others.
ReadMore(g) ==
    /\ gplt[g].pc = "more" /\ HasPacket(g) /\ TakePacket(g)
    /\ toApp' = Send(toApp, mq, <<gplt[g].req[1], "ack">>)
    /\ gplt' = [gplt EXCEPT ![g].need = @ - 1,
                            ![g].pc = IF gplt[g].need = 1 THEN "work" ELSE "more"]
    /\ UNCHANGED <<mq, sem, free, app, faults, upset>>

\* gplt ends whenever a program ends.
BugServe(g) ==
    /\ gplt[g].pc = "work"
    /\ toApp' = Send(toApp, gplt[g].chan, gplt[g].req)
    /\ gplt' = [gplt EXCEPT ![g].pc = IF gplt[g].req[2] = "leave" THEN "end" ELSE "read"]
    /\ UNCHANGED <<mq, sem, free, toGplt, app, faults, upset>>

\* The request is carried out and answered (GPUTB).
Serve(g) ==
    /\ gplt[g].pc = "work"
    /\ toApp' = Send(toApp, gplt[g].chan, gplt[g].req)
    /\ gplt' = [gplt EXCEPT ![g].pc = IF gplt[g].req[2] = "quit" THEN "end" ELSE "read"]
    /\ UNCHANGED <<mq, sem, free, toGplt, app, faults, upset>>

\* The semaphore is released, not removed.
BugLeave(g) ==
    /\ gplt[g].pc = "end"
    /\ free' = (free \/ sem = gplt[g].sem)
    /\ gplt' = [gplt EXCEPT ![g] = Corpse(g)]
    /\ UNCHANGED <<mq, sem, toGplt, toApp, app, faults, upset>>

\* GSFREE at the end of gplt.
Leave(g) ==
    /\ gplt[g].pc = "end"
    /\ FreeSem(gplt[g].sem)
    /\ gplt' = [gplt EXCEPT ![g] = Corpse(g)]
    /\ UNCHANGED <<mq, toGplt, toApp, app, faults, upset>>

-----------------------------------------------------------------------------
(***************************************************************************)
(* What leaves the next program with replies that are not its own, or with *)
(* a gplt that is not there, since only a program that finds the semaphore *)
(* held clears the queue.  A program killed just before it forks; while it *)
(* waits for a sign of life, which comes all the same; or while gplt       *)
(* starts or ends.  A gplt that dies before it has taken the semaphore.    *)
(* And CCHECK giving up a gplt that lives (see GiveUp).  The model stops   *)
(* there, with upset.                                                      *)
(***************************************************************************)
KillHarms == pc \in {"fork", "poll"} \/ (pc = "wait" /\ (free \/ req = "quit"))
DeathHarms(g) == gplt[g].pc \in Starting

Kill ==
    /\ pc # "none" /\ faults < MaxFault
    /\ Goto("none") /\ faults' = faults + 1
    /\ upset' = KillHarms
    /\ UNCHANGED <<ipc, run, prog, mbchan, smchan, req, left, taken, blank, gplt>>

Die(g) ==
    /\ g \in Living /\ faults < MaxFault
    /\ gplt' = [gplt EXCEPT ![g] = Corpse(g)]
    /\ faults' = faults + 1
    /\ upset' = DeathHarms(g)
    /\ UNCHANGED <<ipc, app>>

AppStep ==
    \/ Queue \/ Lock \/ Test \/ Poll \/ GiveUp \/ Install \/ NothingToEnd \/ Fork
    \/ \E n \in 1 .. MaxPack : Ask(n)
    \/ AskMore \/ Receive \/ End

GpltStep(g) ==
    \/ Attach(g) \/ Lookup(g) \/ Grab(g) \/ Stop(g)
    \/ ReadFirst(g) \/ ReadMore(g) \/ Serve(g) \/ Leave(g)

Next ==
    /\ ~upset
    /\ \/ \E p \in Prog : Begin(p)
       \/ AppStep \/ Kill
       \/ \E g \in Run : GpltStep(g) \/ Die(g)

Spec == Init /\ [][Next]_vars
FairSpec ==
    Spec /\ WF_vars(~upset /\ AppStep) /\ \A g \in Run : WF_vars(~upset /\ GpltStep(g))

-----------------------------------------------------------------------------
(***************************************************************************)
(* Messages carry no number: GGET takes the first reply it finds for the   *)
(* reply to what was asked last, and GPUT anything for an acknowledgement. *)
(* A program reads the replies to its own requests only, whatever dies in  *)
(* the middle of a plot; except that nothing is claimed from the first     *)
(* harm of KillHarms, DeathHarms or GiveUp on (upset).                     *)
(***************************************************************************)
OwnReplies ==
    ~upset =>
        /\ pc = "next" => taken = Mine(req)
        /\ taken # <<0, "none">> /\ pc # "next" => pc = "none" \/ taken = Mine("ack")

(***************************************************************************)
(* No two gplt take turns in reading one queue, which would leave each     *)
(* with half of the requests, and none reads a queue that was removed,     *)
(* which it would do without waiting and for ever (GGETB returns at once,  *)
(* with the request before in the buffer).                                 *)
(***************************************************************************)
OneReader ==
    ~upset => \A g \in Run : gplt[g].pc \in Loop =>
        gplt[g].chan = mq /\ \A h \in Run : gplt[h].pc \in Loop => g = h

(***************************************************************************)
(* A program that began when no gplt lived starts one, whatever the dead   *)
(* one has left: semaphore, queue, replies nobody read.                    *)
(***************************************************************************)
DeadIsFound ==
    ~upset /\ blank /\ pc \in {"found", "more", "ack", "wait", "next"} => gplt[run] # Dead

(***************************************************************************)
(* Every program ends, but one whose gplt dies under it: GGET waits for    *)
(* the reply without a limit.                                              *)
(***************************************************************************)
Returns ==
    \/ <>upset
    \/ []<>(pc = "none")
    \/ <>[](pc \in {"ack", "wait"} /\ \A g \in Living : gplt[g].chan # mbchan)

(***************************************************************************)
(* When a program, or GPEND, has ended gplt (GENDP (1)), gplt is gone in   *)
(* the end, and the queue and the semaphore with it; unless another        *)
(* program has begun.                                                      *)
(***************************************************************************)
QuitLeavesNothing ==
    (pc = "none" /\ run = MaxRun /\ taken = Mine("quit") /\ mq # mbchan)
        ~> (mq = 0 /\ Living = {} /\ (sem = 0 \/ faults > 0)) \/ upset
=============================================================================
