---------------------------- MODULE PlotQueueProofs ----------------------------
(***************************************************************************)
(* Theorems about PlotQueue, for any number of programs run one after the  *)
(* other, requests of any number of packets, and any number of deaths.     *)
(***************************************************************************)
EXTENDS PlotQueue, SequenceTheorems, FiniteSetTheorems, TLAPS

(***************************************************************************)
(* What is so as long as nothing has gone wrong (~upset).                  *)
(*                                                                         *)
(* A gplt serves when it reads the queue or is about to.  The semaphore    *)
(* tells which: sem is the number of the gplt that serves, so that there   *)
(* is one at most; it is free as long as that gplt starts and held as long *)
(* as it reads.  What a program has asked and not read the answer of is in *)
(* one place: asked and not taken, in the hands of gplt, or answered.      *)
(***************************************************************************)
Asked   == toGplt[mq]
Replies == toApp[mq]
Quiet   == mq # 0 => Asked = <<>> /\ Replies = <<>>

Serving == Loop \cup Starting
Before  == {"queue", "lock", "test", "poll", "absent", "fork"}
Session == {"found", "more", "ack", "wait", "next"}

\* The gplt that serves, if there is one, is at one of the places S; still
\* needs k packets of the request; carries it out.
ReaderAt(S) == \A g \in Run : gplt[g].pc \in Serving => gplt[g].pc \in S
Expects(k)  == \A g \in Run : gplt[g].pc \in Serving =>
                  gplt[g].pc = "more" /\ gplt[g].need = k /\ gplt[g].req = Mine(req)
Works       == \A g \in Run : gplt[g].pc \in Serving =>
                  gplt[g].pc = "work" /\ gplt[g].req = Mine(req)

\* gplt has been ended, and has not given up the semaphore or has.
Over == sem = 0 \/ gplt[sem].pc = "end"

QueueOK ==
    /\ \A q \in Run : q # mq => toGplt[q] = <<>> /\ toApp[q] = <<>>
    /\ pc \notin {"none", "queue"} => mbchan = mq /\ mq # 0

GpltOK ==
    \A g \in Run :
        /\ gplt[g].pc \in Starting =>
              /\ sem = g /\ free /\ mq # 0
              /\ gplt[g].pc # "born" => gplt[g].chan = mq
              /\ gplt[g].pc = "grab" => gplt[g].sem = g
        /\ gplt[g].pc \in Loop =>
              sem = g /\ ~free /\ mq # 0 /\ gplt[g].chan = mq /\ gplt[g].sem = g
        /\ gplt[g].pc = "more" => gplt[g].need > 0
        /\ gplt[g].pc = "end" =>
              gplt[g].sem = g /\ gplt[g].chan # 0 /\ (sem = g => ~free)
        /\ g > run \/ (g = run /\ pc \in Before) => gplt[g] = Dead

SemOK ==
    /\ free => sem # 0 /\ (gplt[sem].pc \in Starting \/ (pc = "fork" /\ sem = run))
    /\ sem =< run
    /\ pc \in Before \ {"fork"} => sem # run
    /\ pc \in {"lock", "test", "poll"} => sem = smchan \/ sem = 0
    /\ pc = "test" => smchan # 0
    /\ pc = "absent" => sem = 0
    /\ pc = "fork" => sem = run /\ free
    /\ pc # "none" => run # 0

\* The packets of a request: the first, which says how many, and the others.
FirstOf(n) == [req |-> Mine(req), n |-> n]
OneMore    == [req |-> Mine(req), n |-> 0]

FoundOK ==
    pc = "found" => Asked = <<>> /\ Replies = <<>> /\ ReaderAt(Starting \cup {"read"})

MoreOK ==
    pc = "more" =>
        /\ left > 0 /\ Replies = <<>>
        /\ \/ Asked = <<FirstOf(left + 1)>> /\ ReaderAt({"read"})
           \/ Asked = <<>> /\ Expects(left)

AckOK ==
    pc = "ack" =>
        \/ /\ Asked = <<FirstOf(left + 2), OneMore>> /\ Replies = <<>>
           /\ ReaderAt({"read"})
        \/ Asked = <<OneMore>> /\ Replies = <<>> /\ Expects(left + 1)
        \/ /\ Asked = <<>> /\ Replies = <<Mine("ack")>>
           /\ IF left = 0 THEN Works ELSE Expects(left)
        \/ /\ Asked = <<>> /\ Replies = <<Mine("ack"), Mine(req)>>
           /\ left = 0 /\ ReaderAt({"read"})

\* The request has been carried out, after "quit" by a gplt that is ending.
Done == ReaderAt(IF req = "quit" THEN {} ELSE {"read"})

WaitOK ==
    pc = "wait" =>
        \/ /\ Asked = <<FirstOf(1)>> /\ Replies = <<>>
           /\ ReaderAt(Starting \cup {"read"})
        \/ Asked = <<>> /\ Replies = <<>> /\ Works
        \/ Asked = <<>> /\ Replies = <<Mine(req)>> /\ Done

NextOK ==
    pc = "next" => Asked = <<>> /\ Replies = <<>> /\ Done /\ taken = Mine(req)

TalkOK == FoundOK /\ MoreOK /\ AckOK /\ WaitOK /\ NextOK

SessionOK ==
    pc \in Session =>
        /\ Over => req = "quit" /\ pc \in {"wait", "next"}
        /\ pc = "found" => taken = <<0, "none">>
        /\ pc \in {"more", "ack"} => req = "plot"
        /\ pc \in {"more", "ack", "wait"} => taken = <<0, "none">> \/ taken = Mine("ack")
        /\ pc \in {"wait", "next"} => req \in {"init", "plot", "leave", "quit"}

\* What programs that were killed have left is cleared by CCHECK, which does
\* so only when the semaphore is held.
OutsideOK ==
    /\ pc \notin Session \cup {"poll"} /\ (free \/ Over) => Quiet
    /\ pc \in Before => taken = <<0, "none">>

\* No request of kind f is on its way or being carried out.
NoneAsked(f) ==
    /\ \A i \in 1 .. Len(Asked) : Asked[i].req[2] # f
    /\ \A g \in Run : gplt[g].pc \in {"more", "work"} => gplt[g].req[2] # f
NoneAnswered(f) == \A i \in 1 .. Len(Replies) : Replies[i][2] # f

NoCheck == pc # "poll" /\ mq # 0 => NoneAsked("check") /\ NoneAnswered("check")
NoQuit  == pc # "wait" /\ mq # 0 => NoneAsked("quit")

\* The check is the last thing asked; when it is answered nothing is left.
PollOK ==
    pc = "poll" =>
        /\ \A i \in 1 .. Len(Asked) : Asked[i].req[2] = "check" =>
              /\ i = Len(Asked) /\ Asked[i].n = 1 /\ NoneAnswered("check")
              /\ \A g \in Run : gplt[g].pc = "work" => gplt[g].req[2] # "check"
        /\ \A g \in Run : gplt[g].pc = "work" /\ gplt[g].req[2] = "check" =>
              Asked = <<>> /\ NoneAnswered("check")
        /\ \A g \in Run : gplt[g].pc = "more" => gplt[g].req[2] # "check"
        /\ \A i \in 1 .. Len(Replies) : Replies[i][2] = "check" =>
              i = Len(Replies) /\ Asked = <<>> /\ ReaderAt({"read"}) /\ ~Over

BlankOK ==
    blank =>
        /\ pc \in Before => Living = {}
        /\ pc = "poll" => NoneAnswered("check")
        /\ pc \in Session => gplt[run] # Dead

Core ==
    /\ QueueOK /\ GpltOK /\ SemOK /\ TalkOK /\ SessionOK
    /\ OutsideOK /\ NoCheck /\ NoQuit /\ PollOK /\ BlankOK

PlotInv == TypeOK /\ (~upset => Core)

Process == [pc : Loop \cup Starting \cup {"dead", "end"}, chan : Id,
            sem : Id, req : Request, need : 0 .. MaxPack]

-----------------------------------------------------------------------------
\* A second message put behind the only one.
LEMMA TwoLong ==
  ASSUME NEW x, NEW y
  PROVE  Append(<<x>>, y) = <<x, y>>
<1> DEFINE S == {x, y}
<1>1. <<x>> \in Seq(S) /\ <<x, y>> \in Seq(S) /\ y \in S
  OBVIOUS
<1>2. /\ Len(<<x>>) = 1 /\ <<x>>[1] = x
      /\ Len(<<x, y>>) = 2 /\ <<x, y>>[1] = x /\ <<x, y>>[2] = y
  OBVIOUS
<1> HIDE DEF S
<1>3. /\ Append(<<x>>, y) \in Seq(S) /\ Len(Append(<<x>>, y)) = 2
      /\ Append(<<x>>, y)[1] = x /\ Append(<<x>>, y)[2] = y
  BY <1>1, <1>2
<1>4. \A i \in 1 .. 2 : Append(<<x>>, y)[i] = <<x, y>>[i]
  BY <1>2, <1>3
<1> QED BY <1>1, <1>2, <1>3, <1>4, SeqEqual

\* The sequences of one message or two.
LEMMA Short ==
  ASSUME NEW x, NEW y
  PROVE  /\ Append(<<>>, x) = <<x>> /\ Append(<<x>>, y) = <<x, y>>
         /\ Head(<<x>>) = x /\ Tail(<<x>>) = <<>> /\ <<x>> # <<>>
         /\ Head(<<x, y>>) = x /\ Tail(<<x, y>>) = <<y>> /\ <<x, y>> # <<>>
         /\ <<x>>[1] = x /\ Len(<<x>>) = 1
<1>1. Append(<<x>>, y) = <<x, y>>
  BY TwoLong
<1>2. Append(<<>>, x) = <<x>> /\ Head(<<x>>) = x /\ Tail(<<x>>) = <<>> /\ <<x>> # <<>>
  OBVIOUS
<1>3. Head(<<x, y>>) = x /\ Tail(<<x, y>>) = <<y>> /\ <<x, y>> # <<>>
  OBVIOUS
<1>4. <<x>>[1] = x /\ Len(<<x>>) = 1
  OBVIOUS
<1> QED BY <1>1, <1>2, <1>3, <1>4

\* A message put at the end of a queue.
LEMMA PutLast ==
  ASSUME NEW S, NEW s \in Seq(S), NEW x \in S
  PROVE  /\ Append(s, x) \in Seq(S) /\ Len(Append(s, x)) = Len(s) + 1
         /\ Append(s, x)[Len(s) + 1] = x
         /\ \A i \in 1 .. Len(s) : Append(s, x)[i] = s[i]
         /\ Len(s) \in Nat
OBVIOUS

\* The first message taken from a queue.
LEMMA TakeFirst ==
  ASSUME NEW S, NEW s \in Seq(S), s # <<>>
  PROVE  /\ Head(s) = s[1] /\ Head(s) \in S /\ Tail(s) \in Seq(S)
         /\ Len(s) \in Nat \ {0} /\ Len(Tail(s)) = Len(s) - 1
         /\ \A i \in 1 .. Len(s) - 1 : Tail(s)[i] = s[i + 1]
         /\ Len(s) = 1 => Tail(s) = <<>>
<1>1. /\ Head(s) = s[1] /\ Head(s) \in S /\ Tail(s) \in Seq(S)
      /\ Len(s) \in Nat \ {0} /\ Len(Tail(s)) = Len(s) - 1
      /\ \A i \in 1 .. Len(s) - 1 : Tail(s)[i] = s[i + 1]
  OBVIOUS
<1>2. ASSUME Len(s) = 1 PROVE Tail(s) = <<>>
  <2>1. Tail(s) \in Seq(S) /\ Len(Tail(s)) = 0
    BY <1>1, <1>2
  <2> QED BY <2>1, EmptySeq
<1> QED BY <1>1, <1>2

\* CSEND puts a message of the right type on the queue.
LEMMA Deliver ==
  ASSUME TypeOK, NEW S, NEW box \in [Run -> Seq(S)], NEW q \in Id, NEW m \in S
  PROVE  Send(box, q, m) \in [Run -> Seq(S)]
<1>1. CASE q # 0 /\ q = mq
  <2>1. q \in Run
    BY <1>1 DEF Id
  <2>2. Append(box[q], m) \in Seq(S)
    BY <2>1, PutLast
  <2> QED BY <1>1, <2>1, <2>2 DEF Send
<1>2. CASE ~(q # 0 /\ q = mq)
  BY <1>2 DEF Send
<1> QED BY <1>1, <1>2

\* A box loses its first message, or all, or is removed with its queue.
LEMMA Shorter ==
  ASSUME NEW S, NEW box \in [Run -> Seq(S)], NEW q \in Run
  PROVE  /\ [box EXCEPT ![q] = <<>>] \in [Run -> Seq(S)]
         /\ box[q] # <<>> => /\ [box EXCEPT ![q] = Tail(@)] \in [Run -> Seq(S)]
                             /\ Head(box[q]) \in S
<1>1. <<>> \in Seq(S)
  OBVIOUS
<1>2. box[q] \in Seq(S)
  OBVIOUS
<1>3. box[q] # <<>> => Head(box[q]) \in S /\ Tail(box[q]) \in Seq(S)
  BY <1>2, TakeFirst
<1> QED BY <1>1, <1>3

\* The boxes and the queue have their types when the queue is removed.
LEMMA RemoveType ==
  ASSUME TypeOK, NEW q \in Id, Remove(q)
  PROVE  /\ mq' \in Id
         /\ toGplt' \in [Run -> Seq(Packet)] /\ toApp' \in [Run -> Seq(Request)]
<1>1. CASE q = mq /\ q # 0
  <2>1. q \in Run
    BY <1>1 DEF Id
  <2>2. toGplt \in [Run -> Seq(Packet)] /\ toApp \in [Run -> Seq(Request)]
    BY DEF TypeOK
  <2>3. [toGplt EXCEPT ![q] = <<>>] \in [Run -> Seq(Packet)]
    BY <2>1, <2>2, Shorter
  <2>4. [toApp EXCEPT ![q] = <<>>] \in [Run -> Seq(Request)]
    BY <2>1, <2>2, Shorter
  <2> QED BY <1>1, <2>3, <2>4 DEF Remove, Id
<1>2. CASE ~(q = mq /\ q # 0)
  BY <1>2 DEF Remove, TypeOK
<1> QED BY <1>1, <1>2

-----------------------------------------------------------------------------
\* The invariant as the type of every step needs it.
LEMMA Plain ==
  ASSUME TypeOK, Core
  PROVE  /\ pc \notin {"none", "queue"} => mbchan = mq /\ mbchan \in Run
         /\ pc = "more" => left > 0
         /\ \A g \in Run : gplt[g].pc = "more" => gplt[g].need > 0
BY DEF TypeOK, Core, QueueOK, TalkOK, MoreOK, GpltOK, Id

\* What a program asks next is a request.
LEMMA TypeAsks == TypeOK => Asks \in Func \ {"none", "check"}
BY DEF TypeOK, Asks, Func, Prog

\* The requests and the packets of a program have their types.
LEMMA MineType ==
  ASSUME TypeOK, NEW f \in Func, NEW n \in 0 .. MaxPack
  PROVE  Mine(f) \in Request /\ [req |-> Mine(f), n |-> n] \in Packet
BY DEF TypeOK, Mine, Request, Packet

\* The type of the state after each step of a program.
LEMMA TypeApp ==
  ASSUME TypeOK, Core, AppStep
  PROVE  TypeOK'
<1> USE PlotQueueAssumption
<1>1. CASE Queue
  BY <1>1 DEF TypeOK, Queue, GetQueue, Goto, Id, Run
<1>2. CASE Lock
  BY <1>2 DEF TypeOK, Lock, ipc, Goto
<1>3. CASE Test
  <2>1. UNCHANGED <<sem, free, run, prog, mbchan, smchan, req, left, taken, blank,
                    gplt, faults, upset>>
    BY <1>3 DEF Test
  <2>2. /\ mq' \in Id /\ toGplt' \in [Run -> Seq(Packet)]
        /\ toApp' \in [Run -> Seq(Request)]
    <3>1. [req |-> Mine("check"), n |-> 1] \in Packet
      BY MineType DEF Func
    <3>2. Send(toGplt, mbchan, [req |-> Mine("check"), n |-> 1]) \in [Run -> Seq(Packet)]
      BY <3>1, Deliver DEF TypeOK
    <3>3. mbchan \in Id
      BY DEF TypeOK
    <3> QED BY <1>3, <3>2, <3>3, RemoveType DEF Test, TypeOK
  <2>3. pc' \in {"none", "found", "poll"}
    BY <1>3 DEF Test, Goto
  <2> QED BY <2>1, <2>2, <2>3 DEF TypeOK
<1>4. CASE Poll
  <2>1. toApp' \in [Run -> Seq(Request)]
    BY <1>4, Plain, Shorter DEF Poll, TypeOK
  <2> QED BY <1>4, <2>1 DEF TypeOK, Poll, Goto
<1>5. CASE GiveUp
  <2>1. toGplt' \in [Run -> Seq(Packet)]
    BY <1>5, Plain, Shorter DEF GiveUp, TypeOK
  <2>2. sem' \in Id /\ free' \in BOOLEAN
    BY <1>5 DEF GiveUp, FreeSem, TypeOK, Id
  <2>3. upset' \in BOOLEAN
    BY <1>5 DEF GiveUp
  <2> QED BY <1>5, <2>1, <2>2, <2>3 DEF TypeOK, GiveUp, Goto
<1>6. CASE Install
  BY <1>6 DEF TypeOK, Install, GetQueue, Goto, Id, Run
<1>7. CASE NothingToEnd
  <2>1. /\ mq' \in Id /\ toGplt' \in [Run -> Seq(Packet)]
        /\ toApp' \in [Run -> Seq(Request)]
    BY <1>7, RemoveType DEF NothingToEnd, TypeOK
  <2> QED BY <1>7, <2>1 DEF TypeOK, NothingToEnd, Goto
<1>8. CASE Fork
  <2>1. [Dead EXCEPT !.pc = "born"] = [pc |-> "born", chan |-> 0, sem |-> 0,
                                       req |-> <<0, "none">>, need |-> 0]
    BY DEF Dead
  <2>2. <<0, "none">> \in Request
    BY DEF Request, Id, Func
  <2>3. [Dead EXCEPT !.pc = "born"] \in Process
    BY <2>1, <2>2 DEF Process, Starting, Id
  <2>4. gplt' \in [Run -> Process]
    BY <1>8, <2>3 DEF Fork, TypeOK, Process
  <2> QED BY <1>8, <2>4 DEF TypeOK, Fork, ipc, Goto, Process
<1>9. ASSUME NEW n \in 1 .. MaxPack, Ask(n)
      PROVE  TypeOK'
  <2>1. Asks \in Func /\ n \in 0 .. MaxPack
    BY TypeAsks
  <2>2. [req |-> Mine(Asks), n |-> n] \in Packet
    BY <2>1, MineType
  <2>3. toGplt' \in [Run -> Seq(Packet)]
    BY <1>9, <2>2, Deliver DEF Ask, TypeOK
  <2>4. left' \in 0 .. MaxPack /\ req' \in Func /\ taken' = <<0, "none">>
    BY <1>9, <2>1 DEF Ask
  <2>5. pc' \in {"wait", "more"}
    BY <1>9 DEF Ask, Goto
  <2>6. <<0, "none">> \in Request
    BY DEF Request, Id, Func
  <2> QED BY <1>9, <2>3, <2>4, <2>5, <2>6 DEF TypeOK, Ask
<1>10. CASE AskMore
  <2>1. req \in Func /\ 0 \in 0 .. MaxPack
    BY DEF TypeOK
  <2>2. toGplt' \in [Run -> Seq(Packet)]
    BY <1>10, <2>1, MineType, Deliver DEF AskMore, TypeOK
  <2>3. left' \in 0 .. MaxPack
    BY <1>10, Plain DEF AskMore, TypeOK
  <2> QED BY <1>10, <2>2, <2>3 DEF TypeOK, AskMore, Goto
<1>11. CASE Receive
  <2>1. toApp' \in [Run -> Seq(Request)] /\ taken' \in Request
    BY <1>11, Plain, Shorter DEF Receive, TypeOK
  <2>2. pc' \in {"next", "more", "wait"}
    BY <1>11 DEF Receive, Goto
  <2> QED BY <1>11, <2>1, <2>2 DEF TypeOK, Receive
<1>12. CASE End
  <2>1. /\ mq' \in Id /\ toGplt' \in [Run -> Seq(Packet)]
        /\ toApp' \in [Run -> Seq(Request)]
    BY <1>12, RemoveType DEF End, TypeOK
  <2> QED BY <1>12, <2>1 DEF TypeOK, End, Goto
<1> QED
  BY <1>1, <1>2, <1>3, <1>4, <1>5, <1>6, <1>7, <1>8, <1>9, <1>10, <1>11, <1>12 DEF AppStep

\* A gplt that changes keeps its type, and the others do not change.
LEMMA TypeGplt ==
  ASSUME TypeOK, Core, NEW g \in Run, GpltStep(g)
  PROVE  TypeOK'
<1>1. /\ gplt \in [Run -> Process] /\ gplt[g] \in Process /\ mq \in Id
      /\ toGplt \in [Run -> Seq(Packet)] /\ toApp \in [Run -> Seq(Request)]
  BY DEF TypeOK, Process
<1>2. /\ gplt[g].chan \in Id /\ gplt[g].sem \in Id /\ gplt[g].req \in Request
      /\ gplt[g].need \in 0 .. MaxPack /\ gplt[g].req[1] \in Id
  BY <1>1 DEF Process, Request
<1>3. Corpse(g) \in Process
  <2>1. <<0, "none">> \in Request /\ 0 \in Id
    BY DEF Request, Id, Func
  <2>2. Corpse(g) = [pc |-> "dead", chan |-> gplt[g].chan, sem |-> 0,
                     req |-> <<0, "none">>, need |-> 0]
    BY DEF Corpse, Dead
  <2> QED BY <1>2, <2>1, <2>2, PlotQueueAssumption DEF Process
<1>4. ASSUME NEW r \in Process, gplt' = [gplt EXCEPT ![g] = r]
      PROVE  gplt' \in [Run -> Process]
  BY <1>1, <1>4
<1>5. CASE Attach(g)
  <2>1. gplt' \in [Run -> Process]
    BY <1>1, <1>5 DEF Attach, Process, Starting
  <2> QED BY <1>5, <2>1 DEF Attach, TypeOK, ipc, app, Process
<1>6. CASE Lookup(g)
  <2>1. gplt' \in [Run -> Process]
    BY <1>1, <1>6 DEF Lookup, Process, Starting, TypeOK
  <2> QED BY <1>6, <2>1 DEF Lookup, TypeOK, ipc, app, Process
<1>7. CASE Grab(g)
  <2>1. gplt' \in [Run -> Process]
    BY <1>1, <1>7 DEF Grab, Process, Loop
  <2> QED BY <1>7, <2>1 DEF Grab, TypeOK, app, Process
<1>8. CASE Stop(g)
  <2>1. gplt' \in [Run -> Process]
    BY <1>3, <1>4, <1>8 DEF Stop
  <2>2. <<g, "stop">> \in Request
    BY DEF Request, Id
  <2>3. toApp' \in [Run -> Seq(Request)]
    BY <1>1, <1>2, <1>8, <2>2, Deliver DEF Stop
  <2> QED BY <1>8, <2>1, <2>3 DEF Stop, TypeOK, app, Process
<1>9. ASSUME HasPacket(g), TakePacket(g)
      PROVE  toGplt' \in [Run -> Seq(Packet)] /\ Head(toGplt[mq]) \in Packet
  <2>1. mq \in Run /\ toGplt[mq] # <<>>
    BY <1>1, <1>9 DEF HasPacket, Id
  <2>2. toGplt' = [toGplt EXCEPT ![mq] = Tail(@)]
    BY <1>9 DEF TakePacket
  <2> QED BY <1>1, <2>1, <2>2, Shorter, SMTT(30)
<1>10. CASE ReadFirst(g)
  <2> DEFINE m == Head(toGplt[mq])
  <2>1. toGplt' \in [Run -> Seq(Packet)] /\ m \in Packet
    BY <1>9, <1>10 DEF ReadFirst
  <2>2. PICK need \in IF m.n > 0 THEN {m.n - 1} ELSE 0 .. MaxPack - 1 :
           gplt' = [gplt EXCEPT
                 ![g].req  = IF m.n > 0 THEN m.req ELSE <<m.req[1], "none">>,
                 ![g].need = need,
                 ![g].pc   = IF need > 0 THEN "more" ELSE "work"]
    BY <1>10 DEF ReadFirst
  <2> HIDE DEF m
  <2>3. need \in 0 .. MaxPack
    BY <2>1, PlotQueueAssumption DEF Packet
  <2>4. m.req \in Request /\ <<m.req[1], "none">> \in Request
    BY <2>1 DEF Packet, Request, Func
  <2>5. gplt' \in [Run -> Process]
    BY <1>1, <2>2, <2>3, <2>4 DEF Process, Loop
  <2> QED BY <1>10, <2>1, <2>5 DEF ReadFirst, TypeOK, app, Process
<1>11. CASE ReadMore(g)
  <2>1. gplt' \in [Run -> Process]
    <3>1. gplt[g].need - 1 \in 0 .. MaxPack
      BY <1>2, <1>11, Plain, PlotQueueAssumption DEF ReadMore
    <3>2. gplt' = [gplt EXCEPT ![g].need = gplt[g].need - 1,
                               ![g].pc = IF gplt[g].need = 1 THEN "work" ELSE "more"]
      BY <1>1, <1>11 DEF ReadMore
    <3> QED BY <1>1, <3>1, <3>2 DEF Process, Loop
  <2>2. <<gplt[g].req[1], "ack">> \in Request
    BY <1>2 DEF Request
  <2>3. toApp' \in [Run -> Seq(Request)]
    BY <1>1, <1>11, <2>2, Deliver DEF ReadMore
  <2> QED BY <1>9, <1>11, <2>1, <2>3 DEF ReadMore, TypeOK, app, Process
<1>12. CASE Serve(g)
  <2>1. gplt' \in [Run -> Process]
    BY <1>1, <1>12 DEF Serve, Process, Loop
  <2>2. toApp' \in [Run -> Seq(Request)]
    BY <1>1, <1>2, <1>12, Deliver DEF Serve
  <2> QED BY <1>12, <2>1, <2>2 DEF Serve, TypeOK, app, Process
<1>13. CASE Leave(g)
  <2>1. gplt' \in [Run -> Process]
    BY <1>3, <1>4, <1>13 DEF Leave
  <2>2. sem' \in Id /\ free' \in BOOLEAN
    BY <1>13 DEF Leave, FreeSem, TypeOK, Id
  <2> QED BY <1>13, <2>1, <2>2 DEF Leave, TypeOK, app, Process
<1> QED BY <1>5, <1>6, <1>7, <1>8, <1>10, <1>11, <1>12, <1>13 DEF GpltStep

\* The type of every state.
LEMMA TypeStep == PlotInv /\ [Next]_vars => TypeOK'
<1> SUFFICES ASSUME PlotInv, [Next]_vars PROVE TypeOK'
  OBVIOUS
<1>1. TypeOK
  BY DEF PlotInv
<1>2. ASSUME Next PROVE Core
  BY <1>2 DEF PlotInv, Next
<1>3. CASE UNCHANGED vars
  BY <1>1, <1>3 DEF vars, TypeOK
<1>4. ASSUME NEW p \in Prog, Begin(p)
      PROVE  TypeOK'
  <2>1. <<0, "none">> \in Request
    BY DEF Request, Id, Func
  <2>2. run' \in Id
    BY <1>1, <1>4, PlotQueueAssumption DEF Begin, TypeOK, Id, Run
  <2>3. 0 \in Id /\ 0 \in 0 .. MaxPack /\ "none" \in Func
    BY PlotQueueAssumption DEF Id, Func
  <2> QED BY <1>1, <1>4, <2>1, <2>2, <2>3 DEF Begin, TypeOK, ipc, Goto
<1>5. CASE Kill
  BY <1>1, <1>5, PlotQueueAssumption DEF Kill, KillHarms, TypeOK, ipc, Goto
<1>6. ASSUME NEW g \in Run, Die(g)
      PROVE  TypeOK'
  <2>1. Corpse(g) \in Process
    <3>1. <<0, "none">> \in Request /\ 0 \in Id
      BY DEF Request, Id, Func
    <3>2. Corpse(g) = [pc |-> "dead", chan |-> gplt[g].chan, sem |-> 0,
                       req |-> <<0, "none">>, need |-> 0]
      BY DEF Corpse, Dead
    <3>3. gplt[g].chan \in Id
      BY <1>1 DEF TypeOK
    <3> QED BY <3>1, <3>2, <3>3, PlotQueueAssumption DEF Process
  <2>2. gplt' \in [Run -> Process]
    BY <1>1, <1>6, <2>1 DEF Die, TypeOK, Process
  <2>3. faults' \in 0 .. MaxFault /\ upset' \in BOOLEAN
    BY <1>1, <1>6, PlotQueueAssumption DEF Die, DeathHarms, TypeOK
  <2> QED BY <1>1, <1>6, <2>2, <2>3 DEF Die, TypeOK, ipc, app, Process
<1> QED BY <1>1, <1>2, <1>3, <1>4, <1>5, <1>6, TypeApp, TypeGplt DEF Next

-----------------------------------------------------------------------------
(***************************************************************************)
(* The invariant after each step of a program, as long as it has done no   *)
(* harm.                                                                   *)
(***************************************************************************)
\* The semaphore tells which gplt serves.
LEMMA Alone ==
  ASSUME Core, NEW g \in Run, gplt[g].pc \in Serving
  PROVE  /\ sem = g /\ mq # 0
         /\ \A h \in Run : gplt[h].pc \in Serving => h = g
BY DEF Core, GpltOK, Serving

\* A queue that is created is empty.
LEMMA Fresh ==
  ASSUME TypeOK, Core, run # 0, GetQueue, UNCHANGED <<toGplt, toApp>>
  PROVE  /\ mq' \in Run /\ mq' # 0 /\ mbchan' = mq' /\ (mq # 0 => mq' = mq)
         /\ mq = 0 => Asked' = <<>> /\ Replies' = <<>>
         /\ mq # 0 => Asked' = Asked /\ Replies' = Replies
         /\ \A q \in Run : q # mq' => toGplt'[q] = <<>> /\ toApp'[q] = <<>>
<1>1. run \in Run /\ mq \in Id /\ \A q \in Run : q # 0
  BY DEF TypeOK, Id, Run
<1>2. mq' \in Run /\ mq' # 0 /\ mbchan' = mq' /\ (mq # 0 => mq' = mq)
  BY <1>1 DEF GetQueue, Id
<1>3. /\ Asked' = toGplt[mq'] /\ Replies' = toApp[mq']
      /\ \A q \in Run : toGplt'[q] = toGplt[q] /\ toApp'[q] = toApp[q]
  BY DEF Asked, Replies
<1>4. \A q \in Run : q # mq => toGplt[q] = <<>> /\ toApp[q] = <<>>
  BY DEF Core, QueueOK
<1>5. CASE mq = 0
  BY <1>1, <1>2, <1>3, <1>4, <1>5
<1>6. CASE mq # 0
  BY <1>2, <1>3, <1>4, <1>6 DEF Asked, Replies
<1> QED BY <1>5, <1>6

\* The next program begins.
LEMMA BeginCore ==
  ASSUME TypeOK, Core, NEW p \in Prog, Begin(p)
  PROVE  Core'
<1>101. QueueOK'
  BY DEF Core, QueueOK, Begin, ipc, Goto, TypeOK, Id, Run
<1>102. GpltOK'
  BY DEF Core, GpltOK, Before, Starting, Loop, Begin, ipc, Goto, TypeOK, Id, Run
<1>103. SemOK'
  BY DEF Core, SemOK, Before, Starting, Begin, ipc, Goto, TypeOK, Id, Run
<1>104. TalkOK'
  BY DEF Core, TalkOK, FoundOK, MoreOK, AckOK, WaitOK, NextOK, Begin, ipc, Goto, TypeOK, Id, Run
<1>105. SessionOK'
  BY DEF Core, SessionOK, Session, Begin, ipc, Goto, TypeOK, Id, Run
<1>106. OutsideOK'
  BY DEF Core, OutsideOK, Session, Before, Over, Quiet, Asked, Replies, Begin, ipc, Goto, TypeOK, Id, Run
<1>107. NoCheck'
  BY DEF Core, NoCheck, NoneAsked, NoneAnswered, Asked, Replies, Begin, ipc, Goto, TypeOK, Id, Run
<1>108. NoQuit'
  BY DEF Core, NoQuit, NoneAsked, Asked, Begin, ipc, Goto, TypeOK, Id, Run
<1>109. PollOK'
  BY DEF Core, PollOK, Begin, ipc, Goto, TypeOK, Id, Run
<1>110. BlankOK'
  BY DEF Core, BlankOK, Before, Session, Living, Begin, ipc, Goto, TypeOK, Id, Run
<1> QED BY <1>101, <1>102, <1>103, <1>104, <1>105, <1>106, <1>107, <1>108, <1>109, <1>110 DEF Core

\* CCHECK looks for the queue and the semaphore.
LEMMA QueueCore ==
  ASSUME TypeOK, Core, Queue
  PROVE  Core'
<1>1. /\ mq' \in Run /\ mq' # 0 /\ mbchan' = mq' /\ (mq # 0 => mq' = mq)
      /\ mq = 0 => Asked' = <<>> /\ Replies' = <<>>
      /\ mq # 0 => Asked' = Asked /\ Replies' = Replies
      /\ \A q \in Run : q # mq' => toGplt'[q] = <<>> /\ toApp'[q] = <<>>
  BY Fresh DEF Core, SemOK, Queue, Before
<1>2. mq = 0 => \A g \in Run : gplt[g].pc \notin Serving
  BY Alone
<1>3. Len(<<>>) = 0
  OBVIOUS
<1>101. QueueOK'
  BY <1>1, <1>2, <1>3 DEF Core, QueueOK, Queue, Goto, TypeOK
<1>102. GpltOK'
  BY DEF Core, GpltOK, Before, Starting, Loop, Queue, GetQueue, Goto, TypeOK, Id
<1>103. SemOK'
  BY DEF Core, SemOK, Before, Starting, Queue, GetQueue, Goto, TypeOK, Id
<1>104. TalkOK'
  BY DEF Core, TalkOK, FoundOK, MoreOK, AckOK, WaitOK, NextOK, Queue, GetQueue, Goto, TypeOK, Id
<1>105. SessionOK'
  BY DEF Core, SessionOK, Session, Queue, GetQueue, Goto, TypeOK, Id
<1>106. OutsideOK'
  BY <1>1, <1>2, <1>3 DEF Core, OutsideOK, Session, Before, Over, Quiet, Queue, Goto, TypeOK
<1>107. NoCheck'
  <2>1. CASE mq = 0
    BY <1>1, <1>2, <1>3, <2>1 DEF NoCheck, NoneAsked, NoneAnswered, Serving, Loop, Queue, Goto
  <2>2. CASE mq # 0
    BY <1>1, <1>2, <1>3, <2>2 DEF Core, NoCheck, NoneAsked, NoneAnswered, Queue, Goto
  <2> QED BY <2>1, <2>2
<1>108. NoQuit'
  <2>1. CASE mq = 0
    BY <1>1, <1>2, <1>3, <2>1 DEF NoQuit, NoneAsked, Serving, Loop, Queue, Goto
  <2>2. CASE mq # 0
    BY <1>1, <2>2 DEF Core, NoQuit, NoneAsked, Queue, Goto
  <2> QED BY <2>1, <2>2
<1>109. PollOK'
  BY DEF Core, PollOK, Queue, GetQueue, Goto, TypeOK, Id
<1>110. BlankOK'
  BY DEF Core, BlankOK, Before, Session, Living, Queue, GetQueue, Goto, TypeOK, Id
<1> QED BY <1>101, <1>102, <1>103, <1>104, <1>105, <1>106, <1>107, <1>108, <1>109, <1>110 DEF Core

\* CCHECK finds no semaphore, or goes on to test it.
LEMMA LockCore ==
  ASSUME TypeOK, Core, Lock
  PROVE  Core'
<1>101. QueueOK'
  BY DEF Core, QueueOK, Lock, ipc, Goto, TypeOK, Id
<1>102. GpltOK'
  BY DEF Core, GpltOK, Before, Starting, Loop, Lock, ipc, Goto, TypeOK, Id
<1>103. SemOK'
  BY DEF Core, SemOK, Before, Starting, Lock, ipc, Goto, TypeOK, Id
<1>104. TalkOK'
  BY DEF Core, TalkOK, FoundOK, MoreOK, AckOK, WaitOK, NextOK, Lock, ipc, Goto, TypeOK, Id
<1>105. SessionOK'
  BY DEF Core, SessionOK, Session, Lock, ipc, Goto, TypeOK, Id
<1>106. OutsideOK'
  BY DEF Core, OutsideOK, Session, Before, Over, Quiet, Asked, Replies, Lock, ipc, Goto, TypeOK, Id
<1>107. NoCheck'
  BY DEF Core, NoCheck, NoneAsked, NoneAnswered, Asked, Replies, Lock, ipc, Goto, TypeOK, Id
<1>108. NoQuit'
  BY DEF Core, NoQuit, NoneAsked, Asked, Lock, ipc, Goto, TypeOK, Id
<1>109. PollOK'
  BY DEF Core, PollOK, Lock, ipc, Goto, TypeOK, Id
<1>110. BlankOK'
  BY DEF Core, BlankOK, Before, Session, Living, Lock, ipc, Goto, TypeOK, Id
<1> QED BY <1>101, <1>102, <1>103, <1>104, <1>105, <1>106, <1>107, <1>108, <1>109, <1>110 DEF Core

\* CSPROC makes a semaphore, and a queue if there is none.
LEMMA InstallCore ==
  ASSUME TypeOK, Core, Install
  PROVE  Core'
<1>1. /\ mq' \in Run /\ mq' # 0 /\ mbchan' = mq' /\ (mq # 0 => mq' = mq)
      /\ mq = 0 => Asked' = <<>> /\ Replies' = <<>>
      /\ mq # 0 => Asked' = Asked /\ Replies' = Replies
      /\ \A q \in Run : q # mq' => toGplt'[q] = <<>> /\ toApp'[q] = <<>>
  BY Fresh DEF Core, SemOK, Install
<1>2. mq = 0 => \A g \in Run : gplt[g].pc \notin Serving
  BY Alone
<1>3. Len(<<>>) = 0
  OBVIOUS
<1>4. sem = 0 /\ sem' = run /\ free' = TRUE /\ run \in Run
  BY DEF Core, SemOK, Install, TypeOK, Id, Before
<1>5. \A g \in Run : gplt[g].pc \notin Starting /\ gplt[g].pc \notin Loop
  BY <1>4, Alone DEF Serving, Run
<1>6. gplt[run] = Dead /\ Dead.pc = "dead"
  BY <1>4 DEF Core, GpltOK, Before, Install, Dead
<1>101. QueueOK'
  BY <1>1, <1>2, <1>3, <1>4 DEF Core, QueueOK, Install, Goto, TypeOK
<1>102. GpltOK'
  BY <1>4, <1>5, <1>6 DEF Core, GpltOK, Before, Starting, Loop, Install, GetQueue, Goto, TypeOK, Id
<1>103. SemOK'
  BY <1>4, <1>5, <1>6 DEF Core, SemOK, Before, Starting, Install, GetQueue, Goto, TypeOK, Id
<1>104. TalkOK'
  BY <1>4, <1>5, <1>6 DEF Core, TalkOK, FoundOK, MoreOK, AckOK, WaitOK, NextOK, Install, GetQueue, Goto, TypeOK, Id
<1>105. SessionOK'
  BY <1>4, <1>5, <1>6 DEF Core, SessionOK, Session, Install, GetQueue, Goto, TypeOK, Id
<1>106. OutsideOK'
  BY <1>1, <1>2, <1>3, <1>4 DEF Core, OutsideOK, Session, Before, Over, Quiet, Install, Goto, TypeOK
<1>107. NoCheck'
  <2>1. CASE mq = 0
    BY <1>1, <1>2, <1>3, <2>1 DEF NoCheck, NoneAsked, NoneAnswered, Serving, Loop, Install, Goto
  <2>2. CASE mq # 0
    BY <1>1, <1>2, <1>3, <2>2 DEF Core, NoCheck, NoneAsked, NoneAnswered, Install, Goto
  <2> QED BY <2>1, <2>2
<1>108. NoQuit'
  <2>1. CASE mq = 0
    BY <1>1, <1>2, <1>3, <2>1 DEF NoQuit, NoneAsked, Serving, Loop, Install, Goto
  <2>2. CASE mq # 0
    BY <1>1, <2>2 DEF Core, NoQuit, NoneAsked, Install, Goto
  <2> QED BY <2>1, <2>2
<1>109. PollOK'
  BY <1>4, <1>5, <1>6 DEF Core, PollOK, Install, GetQueue, Goto, TypeOK, Id
<1>110. BlankOK'
  BY <1>4, <1>5, <1>6 DEF Core, BlankOK, Before, Session, Living, Install, GetQueue, Goto, TypeOK, Id
<1> QED BY <1>101, <1>102, <1>103, <1>104, <1>105, <1>106, <1>107, <1>108, <1>109, <1>110 DEF Core

\* CSPROC starts gplt, and there is no other.
LEMMA ForkCore ==
  ASSUME TypeOK, Core, Fork
  PROVE  Core'
<1>1. /\ run \in Run /\ sem = run /\ free /\ gplt[run] = Dead
      /\ gplt' = [gplt EXCEPT ![run] = [Dead EXCEPT !.pc = "born"]]
      /\ gplt \in [Run -> Process] /\ mq # 0
  BY DEF Core, SemOK, GpltOK, QueueOK, Before, Fork, TypeOK, Id, Process
<1>2. /\ gplt'[run].pc = "born" /\ gplt'[run] # Dead
      /\ \A g \in Run : g # run => gplt'[g] = gplt[g]
  BY <1>1 DEF Dead
<1>3. \A g \in Run : g # run =>
         gplt'[g].pc \notin Starting /\ gplt'[g].pc \notin Loop /\ gplt'[g].pc \notin Serving
  <2> SUFFICES ASSUME NEW g \in Run, g # run
               PROVE  gplt[g].pc \notin Serving
    BY <1>2 DEF Serving
  <2> QED BY <1>1, Alone
<1>4. Asked' = Asked /\ Replies' = Replies /\ Asked = <<>> /\ Replies = <<>>
  BY <1>1 DEF Core, OutsideOK, Session, Quiet, Asked, Replies, Fork, ipc
<1>101. QueueOK'
  BY <1>1, <1>2, <1>3, <1>4 DEF Core, QueueOK, Fork, ipc, Goto
<1>102. GpltOK'
  BY <1>1, <1>2, <1>3, <1>4 DEF Core, GpltOK, Before, Starting, Loop, Fork, ipc, Goto
<1>103. SemOK'
  BY <1>1, <1>2, <1>3, <1>4 DEF Core, SemOK, Before, Starting, Fork, ipc, Goto
<1>104. TalkOK'
  BY <1>2, <1>3, <1>4 DEF Core, TalkOK, FoundOK, MoreOK, AckOK, WaitOK, NextOK, ReaderAt, Starting, Fork, Goto
<1>105. SessionOK'
  BY <1>1, <1>2 DEF Core, SessionOK, Session, Fork, ipc, Goto, Over, OutsideOK, Before, Run
<1>106. OutsideOK'
  BY <1>1, <1>2, <1>3, <1>4 DEF Core, OutsideOK, Session, Before, Over, Quiet, Asked, Replies, Fork, ipc, Goto
<1>107. NoCheck'
  BY <1>1, <1>2, <1>3, <1>4 DEF Core, NoCheck, NoneAsked, NoneAnswered, Serving, Loop, Fork, ipc, Goto
<1>108. NoQuit'
  BY <1>1, <1>2, <1>3, <1>4 DEF Core, NoQuit, NoneAsked, Serving, Loop, Fork, ipc, Goto
<1>109. PollOK'
  BY <1>1, <1>2, <1>3, <1>4 DEF Core, PollOK, Fork, ipc, Goto
<1>110. BlankOK'
  BY <1>1, <1>2, <1>3, <1>4 DEF Core, BlankOK, Before, Session, Living, Fork, ipc, Goto
<1> QED BY <1>101, <1>102, <1>103, <1>104, <1>105, <1>106, <1>107, <1>108, <1>109, <1>110 DEF Core

\* The queue is removed at the end of a program.
LEMMA RemoveCore ==
  ASSUME TypeOK, Core, pc \in {"test", "absent", "next"}, pc' = "none",
         mbchan = mq, mq # 0, Remove(mbchan),
         \A g \in Run : gplt[g].pc \notin Serving,
         UNCHANGED <<sem, free, run, prog, mbchan, smchan, req, left, taken, blank, gplt>>
  PROVE  Core'
<1>101. QueueOK'
  BY DEF Core, QueueOK, Remove, TypeOK, Id, Serving
<1>102. GpltOK'
  BY DEF Core, GpltOK, Before, Starting, Loop, Remove, TypeOK, Id, Serving
<1>103. SemOK'
  <2>1. free => sem \in Run /\ pc # "fork"
    BY DEF Core, SemOK, TypeOK, Id
  <2> QED BY <2>1 DEF Core, SemOK, Before, Serving
<1>104. TalkOK'
  BY DEF Core, TalkOK, FoundOK, MoreOK, AckOK, WaitOK, NextOK, Remove, TypeOK, Id, Serving
<1>105. SessionOK'
  BY DEF Core, SessionOK, Session, Remove, TypeOK, Id, Serving
<1>106. OutsideOK'
  BY DEF Core, OutsideOK, Session, Before, Over, Quiet, Asked, Replies, Remove, TypeOK, Id, Serving
<1>107. NoCheck'
  BY DEF Core, NoCheck, NoneAsked, NoneAnswered, Asked, Replies, Remove, TypeOK, Id, Serving
<1>108. NoQuit'
  BY DEF Core, NoQuit, NoneAsked, Asked, Remove, TypeOK, Id, Serving
<1>109. PollOK'
  BY DEF Core, PollOK, Remove, TypeOK, Id, Serving
<1>110. BlankOK'
  BY DEF Core, BlankOK, Before, Session, Living, Remove, TypeOK, Id, Serving
<1> QED BY <1>101, <1>102, <1>103, <1>104, <1>105, <1>106, <1>107, <1>108, <1>109, <1>110 DEF Core

\* The program ends and leaves the queue.
LEMMA EndCore ==
  ASSUME TypeOK, Core, pc \in {"test", "next"}, pc' = "none",
         pc = "test" => sem # smchan, pc = "next" => req # "quit",
         UNCHANGED <<mq, sem, free, toGplt, toApp, run, prog, mbchan, smchan,
                     req, left, taken, blank, gplt>>
  PROVE  Core'
<1>101. QueueOK'
  BY DEF Core, QueueOK, TypeOK, Id
<1>102. GpltOK'
  BY DEF Core, GpltOK, Before, Starting, Loop, TypeOK, Id
<1>103. SemOK'
  BY DEF Core, SemOK, Before, Starting, TypeOK, Id
<1>104. TalkOK'
  BY DEF Core, TalkOK, FoundOK, MoreOK, AckOK, WaitOK, NextOK, TypeOK, Id
<1>105. SessionOK'
  BY DEF Core, SessionOK, Session, TypeOK, Id
<1>106. OutsideOK'
  BY DEF Core, OutsideOK, Session, Before, Over, Quiet, Asked, Replies, TalkOK, NextOK
<1>107. NoCheck'
  BY DEF Core, NoCheck, NoneAsked, NoneAnswered, Asked, Replies, TypeOK, Id
<1>108. NoQuit'
  BY DEF Core, NoQuit, NoneAsked, Asked, TypeOK, Id
<1>109. PollOK'
  BY DEF Core, PollOK, TypeOK, Id
<1>110. BlankOK'
  BY DEF Core, BlankOK, Before, Session, Living, TypeOK, Id
<1> QED BY <1>101, <1>102, <1>103, <1>104, <1>105, <1>106, <1>107, <1>108, <1>109, <1>110 DEF Core

\* CCHECK finds the semaphore free: gplt is starting.
LEMMA TestFreeCore ==
  ASSUME TypeOK, Core, pc = "test", free, pc' = "found",
         UNCHANGED <<mq, sem, free, toGplt, toApp, run, prog, mbchan, smchan,
                     req, left, taken, blank, gplt>>
  PROVE  Core'
<1>1. /\ sem \in Run /\ gplt[sem].pc \in Starting
      /\ Asked = <<>> /\ Replies = <<>> /\ mq # 0
  BY DEF Core, SemOK, QueueOK, OutsideOK, Session, Quiet, TypeOK, Id
<1>2. \A g \in Run : gplt[g].pc \in Serving => gplt[g].pc \in Starting
  BY <1>1, Alone DEF Serving
<1>3. gplt[sem].pc # "end" /\ gplt[sem].pc # "dead" /\ sem # 0
  BY <1>1 DEF Starting, Run
<1>101. QueueOK'
  BY <1>1, <1>2, <1>3 DEF Core, QueueOK
<1>102. GpltOK'
  BY <1>1, <1>2, <1>3 DEF Core, GpltOK, Before, Starting, Loop
<1>103. SemOK'
  BY <1>1, <1>2, <1>3 DEF Core, SemOK, Before, Starting
<1>104. TalkOK'
  BY <1>1, <1>2 DEF TalkOK, FoundOK, MoreOK, AckOK, WaitOK, NextOK, ReaderAt,
     Asked, Replies
<1>105. SessionOK'
  BY <1>3 DEF Core, SessionOK, Over, OutsideOK, Before
<1>106. OutsideOK'
  BY <1>1, <1>2, <1>3 DEF Core, OutsideOK, Session, Before, Over, Quiet, Asked, Replies
<1>107. NoCheck'
  BY <1>1, <1>2, <1>3 DEF Core, NoCheck, NoneAsked, NoneAnswered, Asked, Replies
<1>108. NoQuit'
  BY <1>1, <1>2, <1>3 DEF Core, NoQuit, NoneAsked, Asked
<1>109. PollOK'
  BY <1>1, <1>2, <1>3 DEF Core, PollOK
<1>110. BlankOK'
  BY <1>1, <1>2, <1>3 DEF Core, BlankOK, Before, Session, Living
<1> QED BY <1>101, <1>102, <1>103, <1>104, <1>105, <1>106, <1>107, <1>108, <1>109, <1>110 DEF Core

\* A message sent on the queue that the key finds.
LEMMA SendTo ==
  ASSUME NEW box, NEW m, NEW q \in Run, q = mq
  PROVE  Send(box, q, m) = [box EXCEPT ![q] = Append(box[q], m)]
BY DEF Send, Run

\* CCHECK finds the semaphore held and asks for a sign of life.
LEMMA TestHeldCore ==
  ASSUME TypeOK, Core, pc = "test", pc' = "poll",
         toGplt' = Send(toGplt, mbchan, [req |-> Mine("check"), n |-> 1]),
         UNCHANGED <<mq, sem, free, toApp, run, prog, mbchan, smchan,
                     req, left, taken, blank, gplt>>
  PROVE  Core'
<1> DEFINE c == [req |-> Mine("check"), n |-> 1]
<1>1. /\ mq \in Run /\ mbchan = mq /\ toGplt[mq] \in Seq(Packet)
      /\ toGplt \in [Run -> Seq(Packet)]
  BY DEF Core, QueueOK, TypeOK, Id
<1>2. c \in Packet /\ c.n = 1 /\ c.req[2] = "check" /\ c.req[2] # "quit"
  BY MineType, PlotQueueAssumption DEF Func, Mine, Packet
<1> HIDE DEF c
<1>3. toGplt' = [toGplt EXCEPT ![mq] = Append(toGplt[mq], c)]
  BY <1>1, SendTo DEF c
<1>4. /\ Asked' = Append(Asked, c) /\ Replies' = Replies
      /\ \A q \in Run : q # mq => toGplt'[q] = toGplt[q]
  BY <1>1, <1>3 DEF Asked, Replies
<1>5. /\ Len(Asked') = Len(Asked) + 1 /\ Asked'[Len(Asked) + 1] = c
      /\ \A i \in 1 .. Len(Asked) : Asked'[i] = Asked[i]
      /\ Len(Asked) \in Nat
  <2>1. Asked \in Seq(Packet)
    BY <1>1 DEF Asked
  <2> QED BY <1>2, <1>4, <2>1, PutLast
<1>6. NoneAsked("check") /\ NoneAnswered("check") /\ NoneAsked("quit") /\ mq # 0
  BY <1>1 DEF Core, NoCheck, NoQuit, Run
<1>101. QueueOK'
  BY <1>1, <1>4 DEF Core, QueueOK
<1>102. GpltOK'
  BY <1>1, <1>4 DEF Core, GpltOK, Before, Starting, Loop
<1>103. SemOK'
  BY <1>1, <1>4 DEF Core, SemOK, Before, Starting
<1>104. TalkOK'
  BY <1>1, <1>4 DEF Core, TalkOK, FoundOK, MoreOK, AckOK, WaitOK, NextOK
<1>105. SessionOK'
  BY <1>1, <1>4 DEF Core, SessionOK, Session
<1>106. OutsideOK'
  BY <1>1, <1>4 DEF Core, OutsideOK, Session, Before, Over, Quiet, Asked, Replies
<1>107. NoCheck'
  BY DEF NoCheck
<1>108. NoQuit'
  BY <1>2, <1>5, <1>6 DEF NoQuit, NoneAsked
<1>109. PollOK'
  BY <1>2, <1>4, <1>5, <1>6 DEF PollOK, NoneAsked, NoneAnswered
<1>110. BlankOK'
  BY <1>4, <1>6 DEF Core, BlankOK, Before, Session, Living, NoneAnswered
<1> QED BY <1>101, <1>102, <1>103, <1>104, <1>105, <1>106, <1>107, <1>108, <1>109, <1>110 DEF Core

\* The sign of life is the last message on the queue.
LEMMA PollFoundCore ==
  ASSUME TypeOK, Core, Poll, Head(toApp[mbchan])[2] = "check"
  PROVE  Core'
<1>1. /\ mq \in Run /\ mbchan = mq /\ toApp[mq] \in Seq(Request) /\ pc = "poll"
      /\ toApp \in [Run -> Seq(Request)] /\ toApp[mq] # <<>>
  BY DEF Core, QueueOK, TypeOK, Id, Poll
<1>2. toApp' = [toApp EXCEPT ![mq] = Tail(toApp[mq])]
  BY <1>1 DEF Poll
<1>3. /\ Replies' = Tail(Replies) /\ Asked' = Asked
      /\ \A q \in Run : q # mq => toApp'[q] = toApp[q]
  BY <1>1, <1>2 DEF Asked, Replies, Poll
<1>4. /\ Head(Replies) = Replies[1] /\ Len(Replies) \in Nat \ {0}
      /\ Len(Replies') = Len(Replies) - 1
      /\ \A i \in 1 .. Len(Replies) - 1 : Replies'[i] = Replies[i + 1]
      /\ Len(Replies) = 1 => Replies' = <<>>
  BY <1>1, <1>3, TakeFirst DEF Replies
<1>5. pc' = "found"
  BY DEF Poll, Goto
<1>6. /\ Replies' = <<>> /\ Asked = <<>> /\ ReaderAt({"read"}) /\ ~Over
      /\ ~NoneAnswered("check")
  BY <1>1, <1>4 DEF Core, PollOK, NoneAnswered, Replies
<1>7. \A g \in Run : gplt[g].pc \notin {"more", "work"}
  BY <1>6 DEF ReaderAt, Serving, Loop
<1>8. Len(<<>>) = 0
  OBVIOUS
<1>101. QueueOK'
  BY <1>1, <1>3, <1>5 DEF Core, QueueOK, Poll
<1>102. GpltOK'
  BY <1>1, <1>3, <1>5 DEF Core, GpltOK, Before, Starting, Loop, Poll
<1>103. SemOK'
  BY <1>1, <1>3, <1>5 DEF Core, SemOK, Before, Starting, Poll
<1>104. TalkOK'
  BY <1>3, <1>5, <1>6 DEF Poll, TalkOK, FoundOK, MoreOK, AckOK, WaitOK, NextOK,
     ReaderAt, Serving
<1>105. SessionOK'
  BY <1>1, <1>5, <1>6 DEF Core, Poll, SessionOK, Over, OutsideOK, Before
<1>106. OutsideOK'
  BY <1>1, <1>3, <1>5 DEF Core, OutsideOK, Session, Before, Over, Quiet, Asked, Replies, Poll
<1>107. NoCheck'
  <2>1. NoneAsked("check")'
    BY <1>3, <1>6, <1>7, <1>8 DEF Poll, NoneAsked
  <2>2. NoneAnswered("check")'
    BY <1>6, <1>8 DEF NoneAnswered
  <2> QED BY <2>1, <2>2 DEF NoCheck
<1>108. NoQuit'
  BY <1>3, <1>6, <1>7, <1>8 DEF Poll, NoQuit, NoneAsked
<1>109. PollOK'
  BY <1>1, <1>3, <1>5 DEF Core, PollOK, Poll
<1>110. BlankOK'
  BY <1>1, <1>5, <1>6 DEF Core, Poll, BlankOK, Before
<1> QED BY <1>101, <1>102, <1>103, <1>104, <1>105, <1>106, <1>107, <1>108, <1>109, <1>110 DEF Core

\* Other replies are thrown away.
LEMMA PollOtherCore ==
  ASSUME TypeOK, Core, Poll, Head(toApp[mbchan])[2] # "check"
  PROVE  Core'
<1>1. /\ mq \in Run /\ mbchan = mq /\ toApp[mq] \in Seq(Request) /\ pc = "poll"
      /\ toApp \in [Run -> Seq(Request)] /\ toApp[mq] # <<>>
  BY DEF Core, QueueOK, TypeOK, Id, Poll
<1>2. toApp' = [toApp EXCEPT ![mq] = Tail(toApp[mq])]
  BY <1>1 DEF Poll
<1>3. /\ Replies' = Tail(Replies) /\ Asked' = Asked
      /\ \A q \in Run : q # mq => toApp'[q] = toApp[q]
  BY <1>1, <1>2 DEF Asked, Replies, Poll
<1>4. /\ Head(Replies) = Replies[1] /\ Len(Replies) \in Nat \ {0}
      /\ Len(Replies') = Len(Replies) - 1
      /\ \A i \in 1 .. Len(Replies) - 1 : Replies'[i] = Replies[i + 1]
      /\ Len(Replies) = 1 => Replies' = <<>>
  BY <1>1, <1>3, TakeFirst DEF Replies
<1>5. pc' = "poll"
  BY DEF Poll, Goto
<1>6. \A i \in 1 .. Len(Replies') : i + 1 \in 1 .. Len(Replies) /\ Replies'[i] = Replies[i + 1]
  BY <1>4
<1>7. NoneAnswered("check") => NoneAnswered("check")'
  BY <1>6 DEF NoneAnswered
<1>101. QueueOK'
  BY <1>1, <1>3, <1>5 DEF Core, QueueOK, Poll
<1>102. GpltOK'
  BY <1>1, <1>3, <1>5 DEF Core, GpltOK, Before, Starting, Loop, Poll
<1>103. SemOK'
  BY <1>1, <1>3, <1>5 DEF Core, SemOK, Before, Starting, Poll
<1>104. TalkOK'
  BY <1>5 DEF TalkOK, FoundOK, MoreOK, AckOK, WaitOK, NextOK
<1>105. SessionOK'
  BY <1>1, <1>3, <1>5 DEF Core, SessionOK, Session, Poll
<1>106. OutsideOK'
  BY <1>1, <1>3, <1>5 DEF Core, OutsideOK, Session, Before, Over, Quiet, Asked, Replies, Poll
<1>107. NoCheck'
  BY <1>5 DEF NoCheck
<1>108. NoQuit'
  BY <1>1, <1>3, <1>5 DEF Core, Poll, NoQuit, NoneAsked
<1>109. PollOK'
  <2>1. PollOK /\ gplt' = gplt /\ sem' = sem
    BY DEF Core, Poll
  <2>2. \A i \in 1 .. Len(Asked') : Asked'[i].req[2] = "check" =>
           /\ i = Len(Asked') /\ Asked'[i].n = 1 /\ NoneAnswered("check")'
           /\ \A g \in Run : gplt'[g].pc = "work" => gplt'[g].req[2] # "check"
    BY <1>1, <1>3, <1>7, <2>1 DEF PollOK
  <2>3. \A g \in Run : gplt'[g].pc = "work" /\ gplt'[g].req[2] = "check" =>
           Asked' = <<>> /\ NoneAnswered("check")'
    BY <1>1, <1>3, <1>7, <2>1 DEF PollOK
  <2>4. \A g \in Run : gplt'[g].pc = "more" => gplt'[g].req[2] # "check"
    BY <1>1, <2>1 DEF PollOK
  <2>5. \A i \in 1 .. Len(Replies') : Replies'[i][2] = "check" =>
           i = Len(Replies') /\ Asked' = <<>> /\ ReaderAt({"read"})' /\ ~Over'
    <3> SUFFICES ASSUME NEW i \in 1 .. Len(Replies'), Replies'[i][2] = "check"
                 PROVE  i = Len(Replies') /\ Asked' = <<>> /\ ReaderAt({"read"})' /\ ~Over'
      OBVIOUS
    <3>1. i + 1 \in 1 .. Len(Replies) /\ Replies[i + 1][2] = "check"
      BY <1>6
    <3>2. i + 1 = Len(Replies) /\ Asked = <<>> /\ ReaderAt({"read"}) /\ ~Over
      BY <1>1, <2>1, <3>1 DEF PollOK
    <3>3. i = Len(Replies')
      BY <1>4, <3>2
    <3>4. ReaderAt({"read"})' /\ ~Over'
      BY <2>1, <3>2 DEF ReaderAt, Over
    <3> QED BY <1>3, <3>2, <3>3, <3>4
  <2> QED BY <2>2, <2>3, <2>4, <2>5 DEF PollOK
<1>110. BlankOK'
  BY <1>1, <1>5, <1>7 DEF Core, Poll, BlankOK, Before, Session, Living
<1> QED BY <1>101, <1>102, <1>103, <1>104, <1>105, <1>106, <1>107, <1>108, <1>109, <1>110 DEF Core

\* CCHECK gives up a gplt that does not serve.
LEMMA GiveUpCore ==
  ASSUME TypeOK, Core, GiveUp, ~upset'
  PROVE  Core'
<1>1. /\ mq \in Run /\ mbchan = mq /\ mq # 0 /\ pc = "poll" /\ pc' = "absent"
      /\ toGplt \in [Run -> Seq(Packet)]
  BY DEF Core, QueueOK, TypeOK, Id, GiveUp, Goto
<1>2. \A g \in Run : gplt[g].pc \notin Starting /\ gplt[g].pc \notin Loop
  <2> SUFFICES ASSUME NEW g \in Run, gplt[g].pc \in Starting \cup Loop
               PROVE  Serves(g, mbchan)
    BY DEF GiveUp
  <2> QED BY <1>1 DEF Core, GpltOK, Serves
<1>3. sem' = 0 /\ free' = FALSE
  BY <1>1, <1>2 DEF Core, SemOK, GiveUp, FreeSem
<1>4. /\ Asked' = <<>> /\ Replies' = <<>> /\ toApp' = toApp
      /\ \A q \in Run : q # mq => toGplt'[q] = toGplt[q]
  BY <1>1 DEF GiveUp, Asked, Replies
<1>5. Len(<<>>) = 0
  OBVIOUS
<1>101. QueueOK'
  BY <1>1, <1>2, <1>3, <1>4 DEF Core, QueueOK, GiveUp
<1>102. GpltOK'
  BY <1>1, <1>2, <1>3 DEF Core, GpltOK, GiveUp, Before, Run, Loop
<1>103. SemOK'
  BY <1>1, <1>3 DEF Core, SemOK, Before, GiveUp, TypeOK, Id, Run
<1>104. TalkOK'
  BY <1>1 DEF TalkOK, FoundOK, MoreOK, AckOK, WaitOK, NextOK
<1>105. SessionOK'
  BY <1>1, <1>2, <1>3, <1>4 DEF Core, SessionOK, Session, GiveUp
<1>106. OutsideOK'
  BY <1>1, <1>4 DEF Core, OutsideOK, Quiet, Before, GiveUp
<1>107. NoCheck'
  BY <1>2, <1>4, <1>5 DEF GiveUp, NoCheck, NoneAsked, NoneAnswered, Loop
<1>108. NoQuit'
  BY <1>2, <1>4, <1>5 DEF GiveUp, NoQuit, NoneAsked, Loop
<1>109. PollOK'
  BY <1>1, <1>2, <1>3, <1>4 DEF Core, PollOK, GiveUp
<1>110. BlankOK'
  BY <1>1, <1>2, <1>3, <1>4 DEF Core, BlankOK, Before, Session, Living, GiveUp
<1> QED BY <1>101, <1>102, <1>103, <1>104, <1>105, <1>106, <1>107, <1>108, <1>109, <1>110 DEF Core

\* The first packet of a request is sent, when the one before is answered.
LEMMA AskCore ==
  ASSUME TypeOK, Core, NEW n \in 1 .. MaxPack, Ask(n)
  PROVE  Core'
<1> DEFINE m == [req |-> Mine(Asks), n |-> n]
<1>1. /\ mq \in Run /\ mbchan = mq /\ mq # 0 /\ toGplt \in [Run -> Seq(Packet)]
      /\ pc \in {"found", "next"} /\ (pc = "next" => req \notin {"leave", "quit"})
  BY DEF Core, QueueOK, TypeOK, Id, Run, Ask
<1>2. Asked = <<>> /\ Replies = <<>>
  BY <1>1 DEF Core, TalkOK, FoundOK, NextOK
<1>3. /\ req' = Asks /\ left' = n - 1 /\ taken' = <<0, "none">>
      /\ pc' = IF n = 1 THEN "wait" ELSE "more"
      /\ toGplt' = Send(toGplt, mbchan, m)
      /\ UNCHANGED <<mq, sem, free, toApp, run, prog, mbchan, smchan, blank, gplt>>
  BY DEF Ask, Goto
<1>4. /\ m.req = Mine(Asks) /\ m.req[2] = Asks /\ m.n = n
      /\ Mine(Asks) = <<run, Asks>>
  BY DEF Mine
<1> HIDE DEF m
<1>5. /\ Asked' = <<m>> /\ Replies' = <<>>
      /\ \A q \in Run : q # mq => toGplt'[q] = toGplt[q]
  BY <1>1, <1>2, <1>3, SendTo, Short DEF Asked, Replies
<1>6. FirstOf(n)' = m
  BY <1>3 DEF FirstOf, Mine, m
<1>7. /\ Asks \in {"init", "plot", "leave", "quit"}
      /\ n # 1 => Asks = "plot" /\ pc = "next"
  BY <1>1 DEF Ask, Asks, TypeOK, Prog
<1>8. ReaderAt(Starting \cup {"read"}) /\ (pc = "next" => ReaderAt({"read"}))
  BY <1>1 DEF Core, TalkOK, FoundOK, NextOK, Done, ReaderAt
<1>9. ~Over
  BY <1>1 DEF Core, SessionOK, Session
<1>10. pc' = "wait" => WaitOK'
  BY <1>3, <1>5, <1>6, <1>8 DEF WaitOK, ReaderAt
<1>11. pc' = "more" => MoreOK'
  <2>1. n # 1 => left' > 0 /\ left' + 1 = n
    BY <1>3
  <2>2. n # 1 => FirstOf(left + 1)' = m
    BY <1>3, <1>6, <2>1 DEF FirstOf, Mine
  <2> QED BY <1>3, <1>5, <1>7, <1>8, <2>1, <2>2 DEF MoreOK, ReaderAt
<1>12. \A i \in 1 .. Len(Asked') : Asked'[i].req[2] = Asks
  BY <1>4, <1>5, Short
<1>13. Len(<<>>) = 0
  OBVIOUS
<1>14. NoneAsked("check") /\ (pc # "wait" => NoneAsked("quit"))
  BY <1>1 DEF Core, NoCheck, NoQuit
<1>101. QueueOK'
  BY <1>1, <1>3, <1>5 DEF Core, QueueOK, Ask
<1>102. GpltOK'
  BY <1>1, <1>3, <1>5 DEF Core, GpltOK, Before, Starting, Loop, Ask
<1>103. SemOK'
  BY <1>1, <1>3, <1>5 DEF Core, SemOK, Before, Starting, Ask
<1>104. TalkOK'
  BY <1>3, <1>10, <1>11 DEF TalkOK, FoundOK, MoreOK, AckOK, WaitOK, NextOK
<1>105. SessionOK'
  BY <1>3, <1>7, <1>9 DEF SessionOK, Over
<1>106. OutsideOK'
  BY <1>1, <1>3, <1>5 DEF Core, OutsideOK, Session, Before, Over, Quiet, Asked, Replies, Ask
<1>107. NoCheck'
  <2>1. NoneAsked("check")'
    BY <1>3, <1>7, <1>12, <1>14 DEF NoneAsked
  <2>2. NoneAnswered("check")'
    BY <1>5, <1>13 DEF NoneAnswered
  <2> QED BY <2>1, <2>2 DEF NoCheck
<1>108. NoQuit'
  BY <1>1, <1>3, <1>7, <1>12, <1>14 DEF NoQuit, NoneAsked
<1>109. PollOK'
  BY <1>1, <1>3, <1>5 DEF Core, PollOK, Ask
<1>110. BlankOK'
  BY <1>1, <1>3, <1>5 DEF Core, BlankOK, Before, Session, Living, Ask
<1> QED BY <1>101, <1>102, <1>103, <1>104, <1>105, <1>106, <1>107, <1>108, <1>109, <1>110 DEF Core

\* Another packet of the request is sent.
LEMMA AskMoreCore ==
  ASSUME TypeOK, Core, AskMore
  PROVE  Core'
<1>1. /\ mq \in Run /\ mbchan = mq /\ mq # 0 /\ toGplt \in [Run -> Seq(Packet)]
      /\ pc = "more" /\ left \in Nat
  BY PlotQueueAssumption DEF Core, QueueOK, TypeOK, Id, Run, AskMore
<1>2. /\ toGplt' = Send(toGplt, mbchan, OneMore) /\ left' = left - 1 /\ pc' = "ack"
      /\ UNCHANGED <<mq, sem, free, toApp, run, prog, mbchan, smchan, req, taken,
                     blank, gplt>>
  BY DEF AskMore, Goto, OneMore
<1>3. /\ Asked' = Append(Asked, OneMore) /\ Replies' = Replies
      /\ \A q \in Run : q # mq => toGplt'[q] = toGplt[q]
  BY <1>1, <1>2, SendTo DEF Asked, Replies
<1>4. /\ left > 0 /\ Replies = <<>> /\ left' + 2 = left + 1 /\ left' + 1 = left
      /\ \/ Asked = <<FirstOf(left + 1)>> /\ ReaderAt({"read"})
         \/ Asked = <<>> /\ Expects(left)
  BY <1>1, <1>2 DEF Core, TalkOK, MoreOK
<1>5. /\ req = "plot" /\ ~Over /\ (taken = <<0, "none">> \/ taken = Mine("ack"))
  BY <1>1 DEF Core, SessionOK, Session
<1>6. /\ FirstOf(left + 1) = FirstOf(left + 2)' /\ OneMore' = OneMore
      /\ ReaderAt({"read"}) => ReaderAt({"read"})'
      /\ Expects(left) => Expects(left + 1)'
  BY <1>2, <1>4 DEF FirstOf, OneMore, Mine, ReaderAt, Expects
<1>7. AckOK'
  <2>1. CASE Asked = <<FirstOf(left + 1)>> /\ ReaderAt({"read"})
    <3>1. Append(<<FirstOf(left + 1)>>, OneMore) = <<FirstOf(left + 1), OneMore>>
      BY Short
    <3>2. Asked' = <<FirstOf(left + 2)', OneMore'>>
      BY <1>3, <1>6, <2>1, <3>1
    <3> QED BY <1>3, <1>4, <1>6, <2>1, <3>2 DEF AckOK
  <2>2. CASE Asked = <<>> /\ Expects(left)
    <3>1. Asked' = <<OneMore'>>
      BY <1>3, <1>6, <2>2, Short
    <3> QED BY <1>3, <1>4, <1>6, <2>2, <3>1 DEF AckOK
  <2> QED BY <1>4, <2>1, <2>2
<1>8. OneMore.req[2] = "plot" /\ OneMore \in Packet /\ Asked \in Seq(Packet)
  <2>1. req \in Func /\ 0 \in 0 .. MaxPack
    BY PlotQueueAssumption DEF TypeOK
  <2> QED BY <1>1, <1>5, <2>1, MineType DEF OneMore, Mine, Asked
<1>9. \A i \in 1 .. Len(Asked') :
         \/ i \in 1 .. Len(Asked) /\ Asked'[i] = Asked[i]
         \/ Asked'[i].req[2] = "plot"
  BY <1>3, <1>8, PutLast
<1>10. NoneAsked("check") /\ NoneAnswered("check") /\ NoneAsked("quit")
  BY <1>1 DEF Core, NoCheck, NoQuit
<1>101. QueueOK'
  BY <1>1, <1>2, <1>3 DEF Core, QueueOK, AskMore
<1>102. GpltOK'
  BY <1>1, <1>2, <1>3 DEF Core, GpltOK, Before, Starting, Loop, AskMore
<1>103. SemOK'
  BY <1>1, <1>2, <1>3 DEF Core, SemOK, Before, Starting, AskMore
<1>104. TalkOK'
  BY <1>2, <1>7 DEF TalkOK, FoundOK, MoreOK, WaitOK, NextOK
<1>105. SessionOK'
  BY <1>2, <1>5 DEF SessionOK, Over, Mine
<1>106. OutsideOK'
  BY <1>1, <1>2, <1>3 DEF Core, OutsideOK, Session, Before, Over, Quiet, Asked, Replies, AskMore
<1>107. NoCheck'
  <2>1. NoneAsked("check")'
    BY <1>2, <1>9, <1>10 DEF NoneAsked
  <2>2. NoneAnswered("check")'
    BY <1>3, <1>10 DEF NoneAnswered
  <2> QED BY <2>1, <2>2 DEF NoCheck
<1>108. NoQuit'
  BY <1>2, <1>9, <1>10 DEF NoQuit, NoneAsked
<1>109. PollOK'
  BY <1>1, <1>2, <1>3 DEF Core, PollOK, AskMore
<1>110. BlankOK'
  BY <1>1, <1>2, <1>3 DEF Core, BlankOK, Before, Session, Living, AskMore
<1> QED BY <1>101, <1>102, <1>103, <1>104, <1>105, <1>106, <1>107, <1>108, <1>109, <1>110 DEF Core

\* The first message on the queue is taken for the answer, and it is.
LEMMA ReceiveCore ==
  ASSUME TypeOK, Core, Receive
  PROVE  Core'
<1>1. /\ mq \in Run /\ mbchan = mq /\ mq # 0 /\ toApp \in [Run -> Seq(Request)]
      /\ pc \in {"ack", "wait"} /\ Replies # <<>> /\ left \in Nat
  BY PlotQueueAssumption DEF Core, QueueOK, TypeOK, Id, Run, Receive, Replies
<1>2. /\ toApp' = [toApp EXCEPT ![mq] = Tail(Replies)] /\ taken' = Head(Replies)
      /\ pc' = IF pc = "wait" THEN "next" ELSE IF left > 0 THEN "more" ELSE "wait"
      /\ UNCHANGED <<mq, sem, free, toGplt, run, prog, mbchan, smchan, req, left,
                     blank, gplt>>
  BY <1>1 DEF Receive, Goto, Replies
<1>3. /\ Replies' = Tail(Replies) /\ Asked' = Asked
      /\ \A q \in Run : q # mq => toApp'[q] = toApp[q]
  BY <1>1, <1>2 DEF Asked, Replies
<1>4. /\ Mine("ack")' = Mine("ack") /\ Mine(req)' = Mine(req)
      /\ Works' = Works /\ Expects(left)' = Expects(left)
      /\ ReaderAt({"read"})' = ReaderAt({"read"}) /\ Done' = Done /\ Over' = Over
  BY <1>2 DEF Mine, Works, Expects, ReaderAt, Done, Over
<1>5. ASSUME pc = "wait"
      PROVE  TalkOK' /\ SessionOK' /\ NoCheck' /\ NoQuit'
  <2>1. Asked = <<>> /\ Replies = <<Mine(req)>> /\ Done
    BY <1>1, <1>5 DEF Core, TalkOK, WaitOK
  <2>2. Replies' = <<>> /\ taken' = Mine(req) /\ pc' = "next"
    BY <1>2, <1>3, <1>5, <2>1, Short
  <2>3. NextOK'
    BY <1>3, <1>4, <2>1, <2>2 DEF NextOK
  <2>4. SessionOK'
    BY <1>2, <1>4, <1>5, <2>2 DEF Core, SessionOK, Session
  <2>5. TalkOK'
    BY <2>2, <2>3 DEF TalkOK, FoundOK, MoreOK, AckOK, WaitOK
  <2>6. Asked' = <<>> /\ \A g \in Run : gplt[g].pc \notin {"more", "work"}
    BY <1>3, <2>1 DEF Done, ReaderAt, Serving, Loop
  <2>7. Len(<<>>) = 0
    OBVIOUS
  <2>8. NoQuit' /\ NoCheck'
    BY <1>2, <2>2, <2>6, <2>7 DEF NoQuit, NoCheck, NoneAsked, NoneAnswered
  <2> QED BY <2>2, <2>4, <2>5, <2>8
<1>6. ASSUME pc = "ack"
      PROVE  TalkOK' /\ SessionOK' /\ NoCheck' /\ NoQuit'
  <2>1. req = "plot" /\ ~Over
    BY <1>6 DEF Core, SessionOK, Session
  <2>2. /\ Asked = <<>> /\ taken' = Mine("ack")
        /\ \/ /\ Replies' = <<>>
              /\ IF left = 0 THEN Works ELSE Expects(left)
           \/ /\ Replies' = <<Mine(req)>>
              /\ left = 0 /\ ReaderAt({"read"})
    <3>1. /\ Asked = <<>>
          /\ \/ /\ Replies = <<Mine("ack")>>
                /\ IF left = 0 THEN Works ELSE Expects(left)
             \/ /\ Replies = <<Mine("ack"), Mine(req)>>
                /\ left = 0 /\ ReaderAt({"read"})
      BY <1>1, <1>6 DEF Core, TalkOK, AckOK
    <3>2. CASE Replies = <<Mine("ack")>>
      <4>1. Replies' = <<>> /\ taken' = Mine("ack")
        BY <1>2, <1>3, <3>2, Short
      <4>2. Replies # <<Mine("ack"), Mine(req)>>
        <5>1. Tail(<<Mine("ack"), Mine(req)>>) = <<Mine(req)>> /\ <<Mine(req)>> # <<>>
          BY Short
        <5> QED BY <1>3, <4>1, <5>1
      <4> QED BY <3>1, <4>1, <4>2
    <3>3. CASE Replies # <<Mine("ack")>>
      <4>1. Replies = <<Mine("ack"), Mine(req)>> /\ left = 0 /\ ReaderAt({"read"})
        BY <3>1, <3>3
      <4>2. /\ Head(<<Mine("ack"), Mine(req)>>) = Mine("ack")
            /\ Tail(<<Mine("ack"), Mine(req)>>) = <<Mine(req)>>
        BY Short
      <4> QED BY <1>2, <1>3, <3>1, <4>1, <4>2
    <3> QED BY <3>2, <3>3
  <2>3. pc' = IF left = 0 THEN "wait" ELSE "more"
    BY <1>1, <1>2, <1>6
  <2>4. pc' = "wait" => WaitOK'
    BY <1>2, <1>3, <1>4, <2>1, <2>2, <2>3 DEF WaitOK, Done
  <2>5. pc' = "more" => MoreOK'
    BY <1>1, <1>2, <1>3, <1>4, <2>2, <2>3 DEF MoreOK
  <2>6. TalkOK'
    BY <2>3, <2>4, <2>5 DEF TalkOK, FoundOK, MoreOK, AckOK, WaitOK, NextOK
  <2>7. SessionOK'
    BY <1>2, <1>4, <2>1, <2>2, <2>3 DEF SessionOK
  <2>8. NoQuit'
    BY <1>1, <1>2, <1>3, <1>6 DEF Core, NoQuit, NoneAsked
  <2>9. NoCheck'
    <3>1. NoneAsked("check")'
      BY <1>1, <1>2, <1>3, <1>6 DEF Core, NoCheck, NoneAsked
    <3>2. NoneAnswered("check")'
      <4>1. CASE Replies' = <<>>
        <5>1. Len(<<>>) = 0
          OBVIOUS
        <5> QED BY <4>1, <5>1 DEF NoneAnswered
      <4>2. CASE Replies' = <<Mine(req)>>
        BY <2>1, <4>2, Short DEF NoneAnswered, Mine
      <4> QED BY <2>2, <4>1, <4>2
    <3> QED BY <3>1, <3>2 DEF NoCheck
  <2> QED BY <2>3, <2>6, <2>7, <2>8, <2>9
<1>7. pc' \in {"next", "more", "wait"}
  BY <1>2
<1>101. QueueOK'
  BY <1>1, <1>2, <1>3 DEF Core, QueueOK, Receive
<1>102. GpltOK'
  BY <1>1, <1>2, <1>3 DEF Core, GpltOK, Before, Starting, Loop, Receive
<1>103. SemOK'
  BY <1>1, <1>2, <1>3 DEF Core, SemOK, Before, Starting, Receive
<1>104. TalkOK'
  BY <1>1, <1>5, <1>6
<1>105. SessionOK'
  BY <1>1, <1>5, <1>6
<1>106. OutsideOK'
  BY <1>1, <1>2, <1>3 DEF Core, OutsideOK, Session, Before, Over, Quiet, Asked, Replies, Receive
<1>107. NoCheck'
  BY <1>1, <1>5, <1>6
<1>108. NoQuit'
  BY <1>1, <1>5, <1>6
<1>109. PollOK'
  BY <1>1, <1>2, <1>3 DEF Core, PollOK, Receive
<1>110. BlankOK'
  BY <1>1, <1>2, <1>3 DEF Core, BlankOK, Before, Session, Living, Receive
<1> QED BY <1>101, <1>102, <1>103, <1>104, <1>105, <1>106, <1>107, <1>108, <1>109, <1>110 DEF Core

\* A program is killed, at a place where it does no harm.
LEMMA KillCore ==
  ASSUME TypeOK, Core, Kill, ~upset'
  PROVE  Core'
<1>1. /\ pc' = "none" /\ pc \notin {"fork", "poll"}
      /\ pc = "wait" => ~free /\ req # "quit"
      /\ UNCHANGED <<ipc, run, prog, mbchan, smchan, req, left, taken, blank, gplt>>
  BY DEF Kill, KillHarms, Goto
<1>2. pc \in {"more", "ack"} => ~free
  <2> SUFFICES ASSUME pc \in {"more", "ack"}, free PROVE FALSE
    OBVIOUS
  <2>1. sem \in Run /\ gplt[sem].pc \in Starting
    BY <1>1 DEF Core, SemOK, TypeOK, Id
  <2>2. \A k : ~ReaderAt({"read"}) /\ ~Expects(k) /\ ~Works
    BY <2>1 DEF ReaderAt, Expects, Works, Serving, Starting
  <2> QED BY <2>2 DEF Core, TalkOK, MoreOK, AckOK
<1>3. pc \in Session /\ Over => pc = "next"
  BY <1>1 DEF Core, SessionOK
<1>4. pc \in {"found", "next"} => Asked = <<>> /\ Replies = <<>>
  BY DEF Core, TalkOK, FoundOK, NextOK
<1>5. Asked' = Asked /\ Replies' = Replies /\ Over' = Over
  BY <1>1 DEF Asked, Replies, Over, ipc
<1>6. mq # 0 => NoneAsked("quit")
  <2>1. CASE pc # "wait"
    BY <2>1 DEF Core, NoQuit
  <2>2. CASE pc = "wait"
    <3>1. CASE Asked = <<FirstOf(1)>> /\ ReaderAt(Starting \cup {"read"})
      BY <1>1, <2>2, <3>1, Short DEF NoneAsked, FirstOf, Mine, ReaderAt, Serving, Loop, Starting
    <3>2. CASE Asked = <<>> /\ (Works \/ Done)
      <4>1. Len(<<>>) = 0
        OBVIOUS
      <4> QED BY <1>1, <2>2, <3>2, <4>1
              DEF NoneAsked, Works, Done, ReaderAt, Serving, Loop, Mine
    <3> QED BY <2>2, <3>1, <3>2 DEF Core, TalkOK, WaitOK
  <2> QED BY <2>1, <2>2
<1>101. QueueOK'
  BY <1>1 DEF Core, QueueOK, ipc
<1>102. GpltOK'
  BY <1>1 DEF Core, GpltOK, Before, Starting, Loop, ipc
<1>103. SemOK'
  BY <1>1 DEF Core, SemOK, Before, Starting, ipc
<1>104. TalkOK'
  BY <1>1 DEF TalkOK, FoundOK, MoreOK, AckOK, WaitOK, NextOK
<1>105. SessionOK'
  BY <1>1 DEF Core, SessionOK, Session, ipc
<1>106. OutsideOK'
  BY <1>1, <1>2, <1>3, <1>4, <1>5 DEF Core, OutsideOK, Quiet, Session, Before, ipc
<1>107. NoCheck'
  BY <1>1 DEF Core, NoCheck, NoneAsked, NoneAnswered, Asked, Replies, ipc
<1>108. NoQuit'
  BY <1>1, <1>5, <1>6 DEF NoQuit, NoneAsked, ipc
<1>109. PollOK'
  BY <1>1 DEF Core, PollOK, ipc
<1>110. BlankOK'
  BY <1>1 DEF Core, BlankOK, Before, Session, Living, ipc
<1> QED BY <1>101, <1>102, <1>103, <1>104, <1>105, <1>106, <1>107, <1>108, <1>109, <1>110 DEF Core

\* Every step of a program keeps the invariant.
LEMMA AppCore ==
  ASSUME TypeOK, Core, ~upset, AppStep, ~upset'
  PROVE  Core'
<1>1. pc \notin {"none", "queue"} => mbchan = mq /\ mq # 0
  BY DEF Core, QueueOK
<1>2. CASE Test
  <2>1. pc = "test" /\ UNCHANGED <<sem, free, run, prog, mbchan, smchan, req, left, taken,
                                   blank, gplt>>
    BY <1>2 DEF Test
  <2>2. CASE sem # smchan /\ pc' = "none" /\ prog = "gpend" /\ Remove(mbchan)
    <3>1. sem = 0
      BY <2>1, <2>2 DEF Core, SemOK
    <3>2. \A g \in Run : gplt[g].pc \notin Serving
      BY <3>1, Alone DEF Run
    <3> QED BY <1>1, <2>1, <2>2, <3>2, RemoveCore
  <2>3. CASE sem # smchan /\ pc' = "none" /\ UNCHANGED <<mq, toGplt, toApp>>
    BY <2>1, <2>3, EndCore
  <2>4. CASE sem = smchan /\ free /\ pc' = "found" /\ UNCHANGED <<mq, toGplt, toApp>>
    BY <2>1, <2>4, TestFreeCore
  <2>5. CASE /\ sem = smchan /\ ~free /\ pc' = "poll" /\ UNCHANGED <<mq, toApp>>
             /\ toGplt' = Send(toGplt, mbchan, [req |-> Mine("check"), n |-> 1])
    BY <2>1, <2>5, TestHeldCore
  <2> QED BY <1>2, <2>2, <2>3, <2>4, <2>5 DEF Test, Goto
<1>3. CASE NothingToEnd
  <2>1. pc = "absent" /\ pc' = "none" /\ Remove(mbchan)
        /\ UNCHANGED <<sem, free, run, prog, mbchan, smchan, req, left, taken, blank, gplt>>
    BY <1>3 DEF NothingToEnd, Goto
  <2>2. sem = 0
    BY <2>1 DEF Core, SemOK
  <2>3. \A g \in Run : gplt[g].pc \notin Serving
    BY <2>2, Alone DEF Run
  <2> QED BY <1>1, <2>1, <2>3, RemoveCore
<1>4. CASE End
  <2>1. pc = "next" /\ pc' = "none"
        /\ UNCHANGED <<sem, free, run, prog, mbchan, smchan, req, left, taken, blank, gplt>>
    BY <1>4 DEF End, Goto
  <2>2. CASE req = "quit"
    <3>1. \A g \in Run : gplt[g].pc \notin Serving
      BY <2>1, <2>2 DEF Core, TalkOK, NextOK, Done, ReaderAt
    <3> QED BY <1>1, <1>4, <2>1, <2>2, <3>1, RemoveCore DEF End
  <2>3. CASE req # "quit"
    BY <1>4, <2>1, <2>3, EndCore DEF End
  <2> QED BY <2>2, <2>3
<1>5. CASE Poll
  BY <1>5, PollFoundCore, PollOtherCore
<1> QED BY <1>2, <1>3, <1>4, <1>5, QueueCore, LockCore, GiveUpCore, InstallCore, ForkCore,
           AskCore, AskMoreCore, ReceiveCore DEF AppStep

-----------------------------------------------------------------------------
(***************************************************************************)
(* The invariant after each step of gplt.                                  *)
(***************************************************************************)
\* Where the program is, by what the gplt that serves is doing.
LEMMA Phase ==
  ASSUME TypeOK, Core, NEW g \in Run, gplt[g].pc \in Serving
  PROVE  /\ mq \in Run /\ mq # 0 /\ sem = g /\ g # 0 /\ ~Over
         /\ pc # "fork" /\ pc # "absent"
         /\ gplt[g] # Dead /\ g =< run /\ (pc \in Before => g # run)
         /\ \A h \in Run : h # g => gplt[h].pc \notin Serving
         /\ blank => pc \notin Before
<1>1. sem = g /\ mq # 0 /\ \A h \in Run : gplt[h].pc \in Serving => h = g
  BY Alone
<1>2. g # 0 /\ mq \in Run
  BY <1>1 DEF TypeOK, Id, Run
<1>3. gplt[g].pc \notin {"end", "dead"}
  BY DEF Serving, Loop, Starting
<1>4. gplt[g] # Dead
  BY <1>3 DEF Dead
<1>5. ~(g > run \/ (g = run /\ pc \in Before))
  BY <1>4 DEF Core, GpltOK
<1>6. pc # "fork" /\ pc # "absent"
  BY <1>1, <1>2, <1>5 DEF Core, SemOK, Before
<1>7. blank => pc \notin Before
  BY <1>3 DEF Core, BlankOK, Living
<1>8. g =< run
  BY <1>5 DEF TypeOK, Id, Run
<1> QED BY <1>1, <1>2, <1>3, <1>4, <1>5, <1>6, <1>7, <1>8 DEF Over

\* What gplt is doing tells where the program is and what is on the queue.
LEMMA PhaseOf ==
  ASSUME TypeOK, Core, NEW g \in Run, gplt[g].pc \in Serving
  PROVE  /\ gplt[g].pc \in Starting =>
              /\ pc \notin {"more", "ack", "next"}
              /\ pc = "wait" => Asked = <<FirstOf(1)>> /\ Replies = <<>>
         /\ gplt[g].pc = "read" /\ Asked # <<>> =>
              /\ pc \notin {"found", "next"} /\ (pc \in Session => Replies = <<>>)
              /\ pc = "more" => Asked = <<FirstOf(left + 1)>> /\ left > 0
              /\ pc = "ack" => Asked = <<FirstOf(left + 2), OneMore>>
              /\ pc = "wait" => Asked = <<FirstOf(1)>>
         /\ gplt[g].pc = "more" /\ Asked # <<>> =>
              /\ pc \notin {"found", "more", "wait", "next"}
              /\ pc = "ack" => /\ Asked = <<OneMore>> /\ Replies = <<>>
                               /\ gplt[g].need = left + 1 /\ gplt[g].req = Mine(req)
         /\ gplt[g].pc = "work" =>
              /\ pc \notin {"found", "more", "next"}
              /\ pc = "ack" => /\ Asked = <<>> /\ Replies = <<Mine("ack")>> /\ left = 0
                               /\ gplt[g].req = Mine(req)
              /\ pc = "wait" => /\ Asked = <<>> /\ Replies = <<>>
                                /\ gplt[g].req = Mine(req)
<1>1. gplt[g].pc \in {"read", "more", "work"} \cup Starting
  BY DEF Serving, Loop
<1>2. \A S : ReaderAt(S) => gplt[g].pc \in S
  BY DEF ReaderAt
<1>3. \A k : Expects(k) => gplt[g].pc = "more" /\ gplt[g].need = k /\ gplt[g].req = Mine(req)
  BY DEF Expects
<1>4. Works => gplt[g].pc = "work" /\ gplt[g].req = Mine(req)
  BY DEF Works
<1>5. Done => gplt[g].pc = "read"
  BY <1>2 DEF Done
<1>6. /\ pc = "found" => Asked = <<>> /\ gplt[g].pc \in Starting \cup {"read"}
      /\ pc = "next" => Asked = <<>> /\ gplt[g].pc = "read"
  BY <1>2, <1>5 DEF Core, TalkOK, FoundOK, NextOK
<1>7. pc = "more" => /\ left > 0 /\ Replies = <<>>
                     /\ \/ Asked = <<FirstOf(left + 1)>> /\ gplt[g].pc = "read"
                        \/ Asked = <<>> /\ gplt[g].pc = "more"
  BY <1>2, <1>3 DEF Core, TalkOK, MoreOK
<1>8. pc = "ack" =>
         \/ /\ Asked = <<FirstOf(left + 2), OneMore>> /\ Replies = <<>>
            /\ gplt[g].pc = "read"
         \/ /\ Asked = <<OneMore>> /\ Replies = <<>>
            /\ gplt[g].pc = "more" /\ gplt[g].need = left + 1 /\ gplt[g].req = Mine(req)
         \/ /\ Asked = <<>> /\ Replies = <<Mine("ack")>>
            /\ \/ left = 0 /\ gplt[g].pc = "work" /\ gplt[g].req = Mine(req)
               \/ left # 0 /\ gplt[g].pc = "more"
         \/ Asked = <<>> /\ gplt[g].pc = "read"
  BY <1>2, <1>3, <1>4 DEF Core, TalkOK, AckOK
<1>9. pc = "wait" =>
         \/ /\ Asked = <<FirstOf(1)>> /\ Replies = <<>>
            /\ gplt[g].pc \in Starting \cup {"read"}
         \/ /\ Asked = <<>> /\ Replies = <<>>
            /\ gplt[g].pc = "work" /\ gplt[g].req = Mine(req)
         \/ Asked = <<>> /\ gplt[g].pc = "read"
  BY <1>2, <1>4, <1>5 DEF Core, TalkOK, WaitOK
<1>10. CASE gplt[g].pc \in Starting
  BY <1>7, <1>8, <1>9, <1>6, <1>10 DEF Starting
<1>11. CASE gplt[g].pc = "read"
  BY <1>7, <1>8, <1>9, <1>6, <1>11 DEF Starting, Session
<1>12. CASE gplt[g].pc = "more"
  BY <1>7, <1>8, <1>9, <1>6, <1>12 DEF Starting
<1>13. CASE gplt[g].pc = "work"
  BY <1>7, <1>8, <1>9, <1>6, <1>13 DEF Starting
<1> QED BY <1>1, <1>10, <1>11, <1>12, <1>13

\* gplt goes on to take the semaphore.
LEMMA StartCore ==
  ASSUME TypeOK, Core, NEW g \in Run, gplt[g].pc \in Starting,
         gplt'[g].pc \in {"lookup", "grab"}, gplt'[g].chan = mq,
         gplt'[g].pc = "grab" => gplt'[g].sem = g,
         \A h \in Run : h # g => gplt'[h] = gplt[h],
         UNCHANGED <<ipc, app>>
  PROVE  Core'
<1>1. gplt[g].pc \in Serving /\ gplt'[g].pc \in Starting /\ gplt'[g].pc \notin Loop
  BY DEF Serving, Starting, Loop
<1>2. /\ mq \in Run /\ mq # 0 /\ sem = g /\ g # 0 /\ ~Over
      /\ pc # "fork" /\ pc # "absent"
      /\ gplt[g] # Dead /\ g =< run /\ (pc \in Before => g # run)
      /\ \A h \in Run : h # g => gplt[h].pc \notin Serving
      /\ blank => pc \notin Before
  BY <1>1, Phase
<1>3. /\ Asked' = Asked /\ Replies' = Replies /\ FirstOf(1)' = FirstOf(1) /\ pc' = pc
      /\ mq' = mq /\ sem' = sem /\ free' = free /\ run' = run /\ blank' = blank /\ g \in Nat
      /\ run \in Nat
  BY DEF Asked, Replies, FirstOf, Mine, ipc, app, Run, TypeOK, Id
<1>4. free /\ ~Over'
  BY <1>1, <1>2, <1>3 DEF Core, GpltOK, Over, Starting
<1>5. ReaderAt(Starting \cup {"read"})'
  BY <1>1, <1>2, <1>3 DEF ReaderAt, Serving
<1>6. \A h \in Run : /\ gplt'[h].pc \in {"more", "work"} => gplt'[h] = gplt[h] /\ h # g
                     /\ gplt'[h].pc \in Starting \/ gplt'[h].pc \in Loop => h = g
  BY <1>1, <1>2 DEF Serving, Starting
<1>7. gplt'[g] # Dead
  BY DEF Dead
<1>101. QueueOK'
  BY <1>1, <1>2, <1>3, <1>6, <1>7 DEF Core, QueueOK, ipc, app
<1>102. GpltOK'
  BY <1>1, <1>2, <1>3, <1>4, <1>6, <1>7 DEF Core, GpltOK, Starting, Loop
<1>103. SemOK'
  BY <1>1, <1>2, <1>3 DEF Core, SemOK, ipc, app
<1>104. TalkOK'
  <2>1. /\ pc \notin {"more", "ack", "next"}
        /\ pc = "wait" => Asked = <<FirstOf(1)>> /\ Replies = <<>>
        /\ pc = "found" => Asked = <<>> /\ Replies = <<>>
    BY <1>1, PhaseOf DEF Core, TalkOK, FoundOK
  <2> QED BY <1>3, <1>5, <2>1 DEF TalkOK, FoundOK, MoreOK, AckOK, WaitOK, NextOK
<1>105. SessionOK'
  BY <1>2, <1>3, <1>4 DEF Core, SessionOK, Session, ipc, app, Mine
<1>106. OutsideOK'
  BY <1>2, <1>3, <1>4 DEF Core, OutsideOK, Quiet, ipc, app
<1>107. NoCheck'
  BY <1>1, <1>2, <1>3, <1>6, <1>7 DEF Core, NoCheck, NoneAsked, NoneAnswered, Asked, Replies, ipc, app
<1>108. NoQuit'
  BY <1>1, <1>2, <1>3, <1>6, <1>7 DEF Core, NoQuit, NoneAsked, Asked, ipc, app
<1>109. PollOK'
  <2>1. ~ReaderAt({"read"})
    BY <1>1 DEF ReaderAt, Starting
  <2>2. pc = "poll" => NoneAnswered("check")
    BY <2>1 DEF Core, PollOK, NoneAnswered
  <2>3. NoneAnswered("check")' = NoneAnswered("check")
    BY <1>3 DEF NoneAnswered
  <2>4. pc = "poll" => \A i \in 1 .. Len(Replies') : Replies'[i][2] # "check"
    BY <1>3, <2>2 DEF NoneAnswered
  <2> QED BY <1>3, <1>6, <2>2, <2>3, <2>4 DEF Core, PollOK
<1>110. BlankOK'
  <2>1. blank => pc \notin Before /\ pc # "poll"
    BY <1>2 DEF Before
  <2>2. pc \in Session => run \in Run
    BY <1>3 DEF Core, SemOK, TypeOK, Id, Session
  <2> QED BY <1>2, <1>3, <1>7, <2>1, <2>2 DEF Core, BlankOK
<1> QED BY <1>101, <1>102, <1>103, <1>104, <1>105, <1>106, <1>107, <1>108, <1>109, <1>110 DEF Core

\* What a step of the gplt that serves leaves as it was, or settles.
LEMMA LoopFrame ==
  ASSUME TypeOK, Core, NEW g \in Run, gplt[g].pc \in Serving,
         gplt'[g].pc \in Loop, gplt'[g].chan = mq, gplt'[g].sem = g,
         gplt'[g].pc = "more" => gplt'[g].need > 0,
         \A h \in Run : h # g => gplt'[h] = gplt[h],
         \A q \in Run : q # mq => toGplt'[q] = toGplt[q] /\ toApp'[q] = toApp[q],
         free' = FALSE, UNCHANGED <<mq, sem, app>>
  PROVE  /\ QueueOK' /\ GpltOK' /\ SemOK' /\ SessionOK' /\ OutsideOK' /\ BlankOK'
         /\ \A h \in Run : h # g => /\ gplt'[h].pc \notin Serving
                                    /\ gplt'[h].pc \notin {"more", "work"}
         /\ \A S : gplt'[g].pc \in S => ReaderAt(S)'
         /\ ~Over'
<1>1. /\ mq \in Run /\ mq # 0 /\ sem = g /\ g # 0 /\ ~Over
      /\ pc # "fork" /\ pc # "absent"
      /\ gplt[g] # Dead /\ g =< run /\ (pc \in Before => g # run)
      /\ \A h \in Run : h # g => gplt[h].pc \notin Serving
      /\ blank => pc \notin Before
  BY Phase
<1>2. /\ pc' = pc /\ mq' = mq /\ sem' = sem /\ run' = run /\ blank' = blank
      /\ mbchan' = mbchan /\ smchan' = smchan /\ req' = req /\ taken' = taken
      /\ g \in Nat /\ run \in Nat
  BY DEF app, Run, TypeOK, Id
<1>3. \A h \in Run : h # g => /\ gplt'[h].pc \notin Serving
                              /\ gplt'[h].pc \notin {"more", "work"}
  BY <1>1 DEF Serving, Loop
<1>4. gplt'[g].pc \notin Starting /\ gplt'[g].pc # "end" /\ gplt'[g] # Dead
  BY DEF Loop, Starting, Dead
<1>5. ~Over'
  BY <1>1, <1>2, <1>4 DEF Over
<1>6. \A S : gplt'[g].pc \in S => ReaderAt(S)'
  BY <1>3 DEF ReaderAt
<1>7. QueueOK'
  BY <1>2 DEF Core, QueueOK
<1>8. GpltOK'
  <2> SUFFICES ASSUME NEW h \in Run
               PROVE  (/\ gplt[h].pc \in Starting =>
                            /\ sem = h /\ free /\ mq # 0
                            /\ gplt[h].pc # "born" => gplt[h].chan = mq
                            /\ gplt[h].pc = "grab" => gplt[h].sem = h
                       /\ gplt[h].pc \in Loop =>
                            sem = h /\ ~free /\ mq # 0 /\ gplt[h].chan = mq /\ gplt[h].sem = h
                       /\ gplt[h].pc = "more" => gplt[h].need > 0
                       /\ gplt[h].pc = "end" =>
                            gplt[h].sem = h /\ gplt[h].chan # 0 /\ (sem = h => ~free)
                       /\ h > run \/ (h = run /\ pc \in Before) => gplt[h] = Dead)'
    BY DEF GpltOK
  <2>1. CASE h = g
    BY <1>1, <1>2, <1>4, <2>1
  <2>2. CASE h # g
    BY <1>2, <1>3, <2>2 DEF Core, GpltOK, Serving
  <2> QED BY <2>1, <2>2
<1>9. SemOK'
  BY <1>1, <1>2 DEF Core, SemOK
<1>10. SessionOK'
  BY <1>2, <1>5 DEF Core, SessionOK, Mine
<1>11. OutsideOK'
  BY <1>2, <1>5 DEF Core, OutsideOK
<1>12. BlankOK'
  <2>1. blank => pc \notin Before /\ pc # "poll"
    BY <1>1 DEF Before
  <2>2. pc \in Session => run \in Run
    BY <1>2 DEF Core, SemOK, TypeOK, Id, Session
  <2> QED BY <1>2, <1>4, <2>1, <2>2 DEF Core, BlankOK
<1> QED BY <1>3, <1>5, <1>6, <1>7, <1>8, <1>9, <1>10, <1>11, <1>12

\* gplt takes the semaphore and begins to read.
LEMMA GrabCore ==
  ASSUME TypeOK, Core, NEW g \in Run, Grab(g)
  PROVE  Core'
<1>1. gplt[g].pc = "grab" /\ gplt[g].pc \in Starting /\ gplt[g].pc \in Serving
  BY DEF Grab, Starting, Serving
<1>2. gplt[g].chan = mq /\ mq # 0 /\ gplt[g].sem = g
  BY <1>1 DEF Core, GpltOK
<1>3. /\ gplt' = [gplt EXCEPT ![g].pc = "read"] /\ free' = FALSE
      /\ UNCHANGED <<mq, sem, toGplt, toApp, app>>
  BY <1>2 DEF Grab
<1>4. /\ gplt'[g].pc = "read" /\ gplt'[g].chan = mq /\ gplt'[g].sem = g
      /\ \A h \in Run : h # g => gplt'[h] = gplt[h]
  BY <1>2, <1>3 DEF TypeOK
<1>5. gplt'[g].pc \in Loop /\ gplt'[g].pc # "more"
  BY <1>4 DEF Loop
<1>6. /\ QueueOK' /\ GpltOK' /\ SemOK' /\ SessionOK' /\ OutsideOK' /\ BlankOK'
      /\ \A h \in Run : h # g => /\ gplt'[h].pc \notin Serving
                                 /\ gplt'[h].pc \notin {"more", "work"}
      /\ \A S : gplt'[g].pc \in S => ReaderAt(S)'
  BY <1>1, <1>3, <1>4, <1>5, LoopFrame
<1>7. /\ Asked' = Asked /\ Replies' = Replies /\ FirstOf(1)' = FirstOf(1)
      /\ pc' = pc /\ mq' = mq
  BY <1>3 DEF Asked, Replies, FirstOf, Mine, app
<1>8. ReaderAt(Starting \cup {"read"})'
  BY <1>4, <1>6
<1>9. TalkOK'
  <2>1. /\ pc \notin {"more", "ack", "next"}
        /\ pc = "wait" => Asked = <<FirstOf(1)>> /\ Replies = <<>>
        /\ pc = "found" => Asked = <<>> /\ Replies = <<>>
    BY <1>1, PhaseOf DEF Core, TalkOK, FoundOK
  <2> QED BY <1>7, <1>8, <2>1 DEF TalkOK, FoundOK, MoreOK, AckOK, WaitOK, NextOK
<1>10. \A h \in Run : gplt'[h].pc \notin {"more", "work"}
  BY <1>4, <1>6
<1>11. NoCheck' /\ NoQuit'
  BY <1>7, <1>10 DEF Core, NoCheck, NoQuit, NoneAsked, NoneAnswered
<1>12. PollOK'
  <2>1. ~ReaderAt({"read"})
    BY <1>1 DEF ReaderAt, Starting
  <2>2. pc = "poll" => NoneAnswered("check")
    BY <2>1 DEF Core, PollOK, NoneAnswered
  <2>3. NoneAnswered("check")' = NoneAnswered("check")
    BY <1>7 DEF NoneAnswered
  <2>4. pc = "poll" => \A i \in 1 .. Len(Replies') : Replies'[i][2] # "check"
    BY <1>7, <2>2 DEF NoneAnswered
  <2> QED BY <1>7, <1>10, <2>2, <2>3, <2>4 DEF Core, PollOK
<1> QED BY <1>6, <1>9, <1>11, <1>12 DEF Core

\* gplt takes the first packet on the queue.
LEMMA Taken ==
  ASSUME TypeOK, Core, NEW g \in Run, gplt[g].pc \in Loop, HasPacket(g), TakePacket(g), mq' = mq
  PROVE  /\ mq \in Run /\ Asked # <<>> /\ Asked' = Tail(Asked) /\ Asked \in Seq(Packet)
         /\ Head(Asked) = Head(toGplt[mq]) /\ Head(Asked) \in Packet
         /\ Head(Asked) = Asked[1] /\ Len(Asked) \in Nat \ {0}
         /\ Len(Asked') = Len(Asked) - 1 /\ (Len(Asked) = 1 => Asked' = <<>>)
         /\ \A i \in 1 .. Len(Asked') :
               i + 1 \in 1 .. Len(Asked) /\ i + 1 # 1 /\ Asked'[i] = Asked[i + 1]
         /\ \A q \in Run : q # mq => toGplt'[q] = toGplt[q]
<1>1. /\ mq \in Run /\ toGplt[mq] # <<>> /\ toGplt \in [Run -> Seq(Packet)]
      /\ toGplt' = [toGplt EXCEPT ![mq] = Tail(toGplt[mq])]
  BY DEF HasPacket, TakePacket, TypeOK, Id
<1>2. Asked = toGplt[mq] /\ Asked' = Tail(Asked) /\ Asked \in Seq(Packet) /\ Asked # <<>>
  BY <1>1 DEF Asked
<1>3. /\ Head(Asked) = Asked[1] /\ Head(Asked) \in Packet
      /\ Len(Asked) \in Nat \ {0} /\ Len(Asked') = Len(Asked) - 1
      /\ \A i \in 1 .. Len(Asked) - 1 : Asked'[i] = Asked[i + 1]
      /\ Len(Asked) = 1 => Asked' = <<>>
  BY <1>2, TakeFirst
<1>4. \A i \in 1 .. Len(Asked') :
         i + 1 \in 1 .. Len(Asked) /\ i + 1 # 1 /\ Asked'[i] = Asked[i + 1]
  BY <1>3
<1> QED BY <1>1, <1>2, <1>3, <1>4

\* A reply put on the queue.
LEMMA Replied ==
  ASSUME TypeOK, NEW m \in Request, mq \in Run, toApp' = Send(toApp, mq, m), mq' = mq
  PROVE  /\ Replies' = Append(Replies, m)
         /\ Len(Replies') = Len(Replies) + 1 /\ Len(Replies) \in Nat
         /\ Replies'[Len(Replies) + 1] = m
         /\ \A i \in 1 .. Len(Replies) : Replies'[i] = Replies[i]
         /\ \A q \in Run : q # mq => toApp'[q] = toApp[q]
<1>1. toApp' = [toApp EXCEPT ![mq] = Append(toApp[mq], m)] /\ toApp \in [Run -> Seq(Request)]
  BY SendTo DEF TypeOK
<1>2. Replies' = Append(Replies, m) /\ Replies \in Seq(Request)
  BY <1>1 DEF Replies
<1> QED BY <1>1, <1>2, PutLast

\* gplt takes the first packet of a request.
LEMMA ReadFirstCore ==
  ASSUME TypeOK, Core, NEW g \in Run, ReadFirst(g)
  PROVE  Core'
<1>1. /\ gplt[g].pc = "read" /\ gplt[g].pc \in Loop /\ gplt[g].pc \in Serving
      /\ HasPacket(g) /\ TakePacket(g) /\ UNCHANGED <<mq, sem, free, toApp, app>>
  BY DEF ReadFirst, Loop, Serving
<1>2. gplt[g].chan = mq /\ gplt[g].sem = g /\ ~free
  BY <1>1 DEF Core, GpltOK
<1>3. PICK m \in Packet : m = Head(Asked) /\ m = Head(toGplt[mq]) /\ m = Asked[1]
  BY <1>1, Taken
<1>4. /\ mq \in Run /\ Asked # <<>> /\ Asked' = Tail(Asked)
      /\ Len(Asked) \in Nat \ {0}
      /\ Len(Asked') = Len(Asked) - 1 /\ (Len(Asked) = 1 => Asked' = <<>>)
      /\ \A i \in 1 .. Len(Asked') :
            i + 1 \in 1 .. Len(Asked) /\ i + 1 # 1 /\ Asked'[i] = Asked[i + 1]
      /\ \A q \in Run : q # mq => toGplt'[q] = toGplt[q]
  BY <1>1, Taken
<1>5. PICK need \in IF m.n > 0 THEN {m.n - 1} ELSE 0 .. MaxPack - 1 :
         gplt' = [gplt EXCEPT
                 ![g].req  = IF m.n > 0 THEN m.req ELSE <<m.req[1], "none">>,
                 ![g].need = need,
                 ![g].pc   = IF need > 0 THEN "more" ELSE "work"]
  <2> DEFINE hd == Head(toGplt[mq])
  <2>1. \E need \in IF hd.n > 0 THEN {hd.n - 1} ELSE 0 .. MaxPack - 1 :
           gplt' = [gplt EXCEPT
                 ![g].req  = IF hd.n > 0 THEN hd.req ELSE <<hd.req[1], "none">>,
                 ![g].need = need,
                 ![g].pc   = IF need > 0 THEN "more" ELSE "work"]
    BY DEF ReadFirst
  <2>2. m = hd
    BY <1>3
  <2> HIDE DEF hd
  <2> QED BY <2>1, <2>2
<1>6. need \in Nat /\ (m.n > 0 => need = m.n - 1)
  BY PlotQueueAssumption DEF Packet
<1>7. /\ gplt'[g].pc = IF need > 0 THEN "more" ELSE "work"
      /\ gplt'[g].need = need /\ gplt'[g].chan = mq /\ gplt'[g].sem = g
      /\ gplt'[g].req = IF m.n > 0 THEN m.req ELSE <<m.req[1], "none">>
      /\ \A h \in Run : h # g => gplt'[h] = gplt[h]
  BY <1>2, <1>5 DEF TypeOK
<1>8. gplt'[g].pc \in Loop /\ gplt'[g].pc \in {"more", "work"}
  BY <1>7 DEF Loop
<1>9. /\ QueueOK' /\ GpltOK' /\ SemOK' /\ SessionOK' /\ OutsideOK' /\ BlankOK'
      /\ \A h \in Run : h # g => /\ gplt'[h].pc \notin Serving
                                 /\ gplt'[h].pc \notin {"more", "work"}
  <2>1. free' = FALSE
    BY <1>1, <1>2 DEF TypeOK
  <2>2. gplt'[g].pc = "more" => gplt'[g].need > 0
    BY <1>6, <1>7
  <2>3. \A q \in Run : q # mq => toGplt'[q] = toGplt[q] /\ toApp'[q] = toApp[q]
    BY <1>1, <1>4
  <2> QED BY <1>1, <1>7, <1>8, <2>1, <2>2, <2>3, LoopFrame
<1>10. /\ Replies' = Replies /\ pc' = pc /\ mq' = mq /\ left' = left /\ req' = req
       /\ \A k : FirstOf(k)' = FirstOf(k) /\ OneMore' = OneMore /\ Mine(req)' = Mine(req)
  BY <1>1 DEF Replies, FirstOf, OneMore, Mine, app
<1>11. \A k : FirstOf(k).n = k /\ FirstOf(k).req = Mine(req)
  BY DEF FirstOf
<1>12. TalkOK'
  <2>1. /\ pc \notin {"found", "next"} /\ (pc \in Session => Replies = <<>>)
        /\ pc = "more" => Asked = <<FirstOf(left + 1)>> /\ left > 0
        /\ pc = "ack" => Asked = <<FirstOf(left + 2), OneMore>>
        /\ pc = "wait" => Asked = <<FirstOf(1)>>
    BY <1>1, <1>4, PhaseOf
  <2>2. left \in Nat
    BY PlotQueueAssumption DEF TypeOK
  <2>3. ASSUME pc = "more" PROVE MoreOK'
    <3>1. m = FirstOf(left + 1) /\ Asked' = <<>>
      BY <1>3, <1>4, <2>1, <2>3, Short
    <3>2. /\ gplt'[g].pc = "more" /\ gplt'[g].need = left /\ gplt'[g].req = Mine(req)
          /\ left > 0
      BY <1>6, <1>7, <1>11, <2>1, <2>2, <2>3, <3>1
    <3>3. Expects(left)'
      BY <1>9, <1>10, <3>2 DEF Expects
    <3> QED BY <1>10, <2>1, <2>3, <3>1, <3>2, <3>3 DEF MoreOK, Session
  <2>4. ASSUME pc = "ack" PROVE AckOK'
    <3>1. m = FirstOf(left + 2) /\ Asked' = <<OneMore>>
      <4>1. /\ Head(<<FirstOf(left + 2), OneMore>>) = FirstOf(left + 2)
            /\ Tail(<<FirstOf(left + 2), OneMore>>) = <<OneMore>>
        BY Short
      <4> QED BY <1>3, <1>4, <2>1, <2>4, <4>1
    <3>2. gplt'[g].pc = "more" /\ gplt'[g].need = left + 1 /\ gplt'[g].req = Mine(req)
      BY <1>6, <1>7, <1>11, <2>1, <2>2, <3>1
    <3>3. Expects(left + 1)'
      BY <1>9, <1>10, <3>2 DEF Expects
    <3> QED BY <1>10, <2>1, <2>4, <3>1, <3>3 DEF AckOK, Session
  <2>5. ASSUME pc = "wait" PROVE WaitOK'
    <3>1. m = FirstOf(1) /\ Asked' = <<>>
      BY <1>3, <1>4, <2>1, <2>5, Short
    <3>2. gplt'[g].pc = "work" /\ gplt'[g].req = Mine(req)
      BY <1>6, <1>7, <1>11, <3>1
    <3>3. Works'
      BY <1>9, <1>10, <3>2 DEF Works
    <3> QED BY <1>10, <2>1, <2>5, <3>1, <3>3 DEF WaitOK, Session
  <2> QED BY <1>10, <2>1, <2>3, <2>4, <2>5 DEF TalkOK, FoundOK, MoreOK, AckOK, WaitOK, NextOK
<1>13. \A f \in {"check", "quit"} : gplt'[g].req[2] = f => m.n > 0 /\ m.req[2] = f
  BY <1>7
<1>14. \A f \in {"check", "quit"} : NoneAsked(f) => NoneAsked(f)'
  <2> SUFFICES ASSUME NEW f \in {"check", "quit"}, NoneAsked(f) PROVE NoneAsked(f)'
    OBVIOUS
  <2>1. \A i \in 1 .. Len(Asked') : Asked'[i].req[2] # f
    BY <1>4 DEF NoneAsked
  <2>2. m.req[2] # f
    BY <1>3, <1>4 DEF NoneAsked
  <2> QED BY <1>9, <1>13, <2>1, <2>2 DEF NoneAsked
<1>15. NoneAnswered("check")' = NoneAnswered("check")
  BY <1>10 DEF NoneAnswered
<1>16. NoCheck' /\ NoQuit'
  BY <1>10, <1>14, <1>15 DEF Core, NoCheck, NoQuit
<1>17. ASSUME pc = "poll" PROVE PollOK'
  <2>1. /\ \A i \in 1 .. Len(Asked) : Asked[i].req[2] = "check" =>
              i = Len(Asked) /\ Asked[i].n = 1 /\ NoneAnswered("check")
        /\ \A i \in 1 .. Len(Replies) : Replies[i][2] = "check" => Asked = <<>>
    BY <1>17 DEF Core, PollOK
  <2>2. gplt'[g].req[2] = "check" =>
           /\ gplt'[g].pc = "work" /\ Asked' = <<>> /\ NoneAnswered("check")
           /\ Len(Asked') = 0
    <3> SUFFICES ASSUME gplt'[g].req[2] = "check"
                 PROVE  /\ gplt'[g].pc = "work" /\ Asked' = <<>> /\ NoneAnswered("check")
                        /\ Len(Asked') = 0
      OBVIOUS
    <3>1. m.n > 0 /\ m.req[2] = "check"
      BY <1>13
    <3>2. 1 = Len(Asked) /\ m.n = 1 /\ NoneAnswered("check")
      <4>1. 1 \in 1 .. Len(Asked) /\ Asked[1].req[2] = "check"
        BY <1>3, <1>4, <3>1
      <4>2. 1 = Len(Asked) /\ Asked[1].n = 1 /\ NoneAnswered("check")
        BY <2>1, <4>1
      <4> QED BY <1>3, <4>2
    <3>3. Len(Asked') = 0 /\ Asked' = <<>>
      BY <1>4, <3>2
    <3>4. need = 0
      BY <1>6, <3>2
    <3> QED BY <1>7, <3>2, <3>3, <3>4
  <2>3. \A i \in 1 .. Len(Asked') : Asked'[i].req[2] = "check" =>
              /\ i = Len(Asked') /\ Asked'[i].n = 1 /\ NoneAnswered("check")
              /\ gplt'[g].req[2] # "check"
    <3> SUFFICES ASSUME NEW i \in 1 .. Len(Asked'), Asked'[i].req[2] = "check"
                 PROVE  /\ i = Len(Asked') /\ Asked'[i].n = 1 /\ NoneAnswered("check")
                        /\ gplt'[g].req[2] # "check"
      OBVIOUS
    <3>1. i + 1 \in 1 .. Len(Asked) /\ Asked'[i] = Asked[i + 1]
      BY <1>4
    <3>2. i + 1 = Len(Asked) /\ Asked[i + 1].n = 1 /\ NoneAnswered("check")
      BY <2>1, <3>1
    <3>3. i = Len(Asked')
      <4>1. Len(Asked) \in Nat /\ Len(Asked') = Len(Asked) - 1
        BY <1>4
      <4>2. i \in Int /\ i + 1 = Len(Asked)
        BY <3>2, <4>1
      <4> QED BY <4>1, <4>2
    <3>4. Len(Asked') # 0
      <4>1. 1 =< i /\ i \in Int
        OBVIOUS
      <4> QED BY <3>3, <4>1
    <3> QED BY <2>2, <3>1, <3>2, <3>3, <3>4, SMTT(30)
  <2>4. NoneAnswered("check")
    BY <1>4, <2>1 DEF NoneAnswered
  <2>5. \A i \in 1 .. Len(Replies') : Replies'[i][2] # "check"
    BY <1>10, <2>4 DEF NoneAnswered
  <2> QED BY <1>9, <1>10, <1>15, <2>2, <2>3, <2>5 DEF PollOK
<1>18. pc # "poll" => PollOK'
  BY <1>10 DEF PollOK
<1> QED BY <1>9, <1>12, <1>16, <1>17, <1>18 DEF Core

\* gplt takes another packet of the request, whatever it is, and acknowledges it.
LEMMA ReadMoreCore ==
  ASSUME TypeOK, Core, NEW g \in Run, ReadMore(g)
  PROVE  Core'
<1>1. /\ gplt[g].pc = "more" /\ gplt[g].pc \in Loop /\ gplt[g].pc \in Serving
      /\ HasPacket(g) /\ TakePacket(g) /\ UNCHANGED <<mq, sem, free, app>>
      /\ toApp' = Send(toApp, mq, <<gplt[g].req[1], "ack">>)
  BY DEF ReadMore, Loop, Serving
<1>2. gplt[g].chan = mq /\ gplt[g].sem = g /\ ~free /\ gplt[g].need > 0
  BY <1>1 DEF Core, GpltOK
<1>3. gplt[g].need \in Nat /\ <<gplt[g].req[1], "ack">> \in Request
  BY PlotQueueAssumption DEF TypeOK, Request
<1>4. /\ mq \in Run /\ Asked # <<>> /\ Asked' = Tail(Asked)
      /\ Len(Asked) \in Nat \ {0}
      /\ Len(Asked') = Len(Asked) - 1
      /\ \A i \in 1 .. Len(Asked') :
            i + 1 \in 1 .. Len(Asked) /\ Asked'[i] = Asked[i + 1]
      /\ \A q \in Run : q # mq => toGplt'[q] = toGplt[q]
  BY <1>1, Taken
<1>5. /\ Replies' = Append(Replies, <<gplt[g].req[1], "ack">>)
      /\ Len(Replies') = Len(Replies) + 1 /\ Len(Replies) \in Nat
      /\ Replies'[Len(Replies) + 1] = <<gplt[g].req[1], "ack">>
      /\ \A i \in 1 .. Len(Replies) : Replies'[i] = Replies[i]
      /\ \A q \in Run : q # mq => toApp'[q] = toApp[q]
  BY <1>1, <1>3, <1>4, Replied
<1>6. gplt' = [gplt EXCEPT ![g].need = gplt[g].need - 1,
                           ![g].pc = IF gplt[g].need = 1 THEN "work" ELSE "more"]
  BY DEF ReadMore, TypeOK
<1>7. /\ gplt'[g].pc = IF gplt[g].need = 1 THEN "work" ELSE "more"
      /\ gplt'[g].need = gplt[g].need - 1 /\ gplt'[g].chan = mq /\ gplt'[g].sem = g
      /\ gplt'[g].req = gplt[g].req
      /\ \A h \in Run : h # g => gplt'[h] = gplt[h]
  BY <1>2, <1>6 DEF TypeOK
<1>8. gplt'[g].pc \in Loop
  BY <1>7 DEF Loop
<1>9. /\ QueueOK' /\ GpltOK' /\ SemOK' /\ SessionOK' /\ OutsideOK' /\ BlankOK'
      /\ \A h \in Run : h # g => /\ gplt'[h].pc \notin Serving
                                 /\ gplt'[h].pc \notin {"more", "work"}
  <2>1. free' = FALSE
    BY <1>1, <1>2 DEF TypeOK
  <2>2. gplt'[g].pc = "more" => gplt'[g].need > 0
    BY <1>2, <1>3, <1>7
  <2> QED BY <1>1, <1>4, <1>5, <1>7, <1>8, <2>1, <2>2, LoopFrame
<1>10. /\ pc' = pc /\ mq' = mq /\ left' = left /\ req' = req /\ run' = run
       /\ Mine(req)' = Mine(req) /\ Mine("ack")' = Mine("ack") /\ Mine(req)[1] = run
       /\ Mine("ack") = <<run, "ack">>
  BY <1>1 DEF Mine, app
<1>11. TalkOK'
  <2>1. /\ pc \notin {"found", "more", "wait", "next"}
        /\ pc = "ack" => /\ Asked = <<OneMore>> /\ Replies = <<>>
                         /\ gplt[g].need = left + 1 /\ gplt[g].req = Mine(req)
    BY <1>1, <1>4, PhaseOf
  <2>2. ASSUME pc = "ack" PROVE AckOK'
    <3>1. Asked' = <<>>
      BY <1>4, <2>1, <2>2, Short
    <3>2. Replies' = <<Mine("ack")>>
      BY <1>5, <1>10, <2>1, <2>2, Short
    <3>3. left \in Nat
      BY PlotQueueAssumption DEF TypeOK
    <3>4. left = 0 => gplt'[g].pc = "work" /\ gplt'[g].req = Mine(req)
      BY <1>7, <2>1, <2>2, <3>3
    <3>5. left # 0 => /\ gplt'[g].pc = "more" /\ gplt'[g].need = left
                      /\ gplt'[g].req = Mine(req)
      BY <1>7, <2>1, <2>2, <3>3
    <3>6. left = 0 => Works'
      BY <1>9, <1>10, <3>4 DEF Works
    <3>7. left # 0 => Expects(left)'
      BY <1>9, <1>10, <3>5 DEF Expects
    <3> QED BY <1>10, <3>1, <3>2, <3>6, <3>7 DEF AckOK
  <2> QED BY <1>10, <2>1, <2>2 DEF TalkOK, FoundOK, MoreOK, AckOK, WaitOK, NextOK
<1>12. \A f : NoneAsked(f) => NoneAsked(f)'
  BY <1>1, <1>4, <1>7, <1>9 DEF NoneAsked
<1>13. NoneAnswered("check") => NoneAnswered("check")'
  <2>1. <<gplt[g].req[1], "ack">>[2] # "check"
    OBVIOUS
  <2>2. \A i \in 1 .. Len(Replies') : i \in 1 .. Len(Replies) \/ i = Len(Replies) + 1
    BY <1>5
  <2> QED BY <1>5, <2>1, <2>2 DEF NoneAnswered
<1>14. NoCheck' /\ NoQuit'
  BY <1>10, <1>12, <1>13 DEF Core, NoCheck, NoQuit
<1>15. ASSUME pc = "poll" PROVE PollOK'
  <2>1. NoneAnswered("check")
    BY <1>1, <1>15 DEF Core, PollOK, NoneAnswered, ReaderAt
  <2>2. gplt'[g].req[2] # "check"
    BY <1>1, <1>7, <1>15 DEF Core, PollOK
  <2>3. NoneAnswered("check")' /\ \A i \in 1 .. Len(Replies') : Replies'[i][2] # "check"
    BY <1>13, <2>1 DEF NoneAnswered
  <2>4. \A i \in 1 .. Len(Asked') : Asked'[i].req[2] = "check" =>
              i = Len(Asked') /\ Asked'[i].n = 1
    <3> SUFFICES ASSUME NEW i \in 1 .. Len(Asked'), Asked'[i].req[2] = "check"
                 PROVE  i = Len(Asked') /\ Asked'[i].n = 1
      OBVIOUS
    <3>1. i + 1 \in 1 .. Len(Asked) /\ Asked'[i] = Asked[i + 1]
      BY <1>4
    <3>2. i + 1 = Len(Asked) /\ Asked[i + 1].n = 1
      BY <1>15, <3>1 DEF Core, PollOK
    <3>3. i = Len(Asked')
      <4>1. Len(Asked) \in Nat /\ Len(Asked') = Len(Asked) - 1
        BY <1>4
      <4>2. i \in Int /\ i + 1 = Len(Asked)
        BY <3>2, <4>1
      <4> QED BY <4>1, <4>2
    <3> QED BY <3>1, <3>2, <3>3
  <2> QED BY <1>9, <2>2, <2>3, <2>4 DEF PollOK
<1>16. pc # "poll" => PollOK'
  BY <1>10 DEF PollOK
<1> QED BY <1>9, <1>11, <1>14, <1>15, <1>16 DEF Core

\* gplt answers the request and goes on.
LEMMA ServeCore ==
  ASSUME TypeOK, Core, NEW g \in Run, Serve(g), gplt[g].req[2] # "quit"
  PROVE  Core'
<1>1. /\ gplt[g].pc = "work" /\ gplt[g].pc \in Loop /\ gplt[g].pc \in Serving
      /\ UNCHANGED <<mq, sem, free, toGplt, app>>
      /\ toApp' = Send(toApp, gplt[g].chan, gplt[g].req)
  BY DEF Serve, Loop, Serving
<1>2. gplt[g].chan = mq /\ gplt[g].sem = g /\ ~free /\ mq \in Run
  BY <1>1 DEF Core, GpltOK, TypeOK, Id
<1>3. gplt[g].req \in Request
  BY DEF TypeOK
<1>4. /\ Replies' = Append(Replies, gplt[g].req)
      /\ Len(Replies') = Len(Replies) + 1 /\ Len(Replies) \in Nat
      /\ Replies'[Len(Replies) + 1] = gplt[g].req
      /\ \A i \in 1 .. Len(Replies) : Replies'[i] = Replies[i]
      /\ \A q \in Run : q # mq => toApp'[q] = toApp[q]
  BY <1>1, <1>2, <1>3, Replied
<1>5. gplt' = [gplt EXCEPT ![g].pc = "read"]
  BY DEF Serve
<1>6. /\ gplt'[g].pc = "read" /\ gplt'[g].chan = mq /\ gplt'[g].sem = g
      /\ \A h \in Run : h # g => gplt'[h] = gplt[h]
  BY <1>2, <1>5 DEF TypeOK
<1>7. gplt'[g].pc \in Loop /\ gplt'[g].pc # "more"
  BY <1>6 DEF Loop
<1>8. /\ QueueOK' /\ GpltOK' /\ SemOK' /\ SessionOK' /\ OutsideOK' /\ BlankOK'
      /\ \A h \in Run : h # g => /\ gplt'[h].pc \notin Serving
                                 /\ gplt'[h].pc \notin {"more", "work"}
      /\ \A S : gplt'[g].pc \in S => ReaderAt(S)'
      /\ ~Over'
  <2>1. free' = FALSE
    BY <1>1, <1>2 DEF TypeOK
  <2> QED BY <1>1, <1>4, <1>6, <1>7, <2>1, LoopFrame
<1>9. /\ pc' = pc /\ mq' = mq /\ left' = left /\ req' = req
      /\ Mine(req)' = Mine(req) /\ Mine("ack")' = Mine("ack") /\ Mine(req)[2] = req
      /\ Asked' = Asked
  BY <1>1 DEF Mine, app, Asked
<1>10. ReaderAt({"read"})'
  BY <1>6, <1>8
<1>11. TalkOK'
  <2>1. /\ pc \notin {"found", "more", "next"}
        /\ pc = "ack" => /\ Asked = <<>> /\ Replies = <<Mine("ack")>> /\ left = 0
                         /\ gplt[g].req = Mine(req)
        /\ pc = "wait" => /\ Asked = <<>> /\ Replies = <<>>
                          /\ gplt[g].req = Mine(req)
    BY <1>1, PhaseOf
  <2>2. ASSUME pc = "ack" PROVE AckOK'
    <3>1. Append(<<Mine("ack")>>, Mine(req)) = <<Mine("ack"), Mine(req)>>
      BY TwoLong, Zenon
    <3>2. Replies' = Append(<<Mine("ack")>>, Mine(req))
      BY <1>4, <2>1, <2>2, Zenon
    <3>3. Replies' = <<Mine("ack"), Mine(req)>>
      BY <3>1, <3>2, Zenon
    <3> QED BY <1>9, <1>10, <2>1, <2>2, <3>3 DEF AckOK
  <2>3. ASSUME pc = "wait" PROVE WaitOK'
    <3>1. Replies' = <<Mine(req)>>
      BY <1>4, <2>1, <2>3, Short
    <3>2. Done'
      BY <1>9, <1>10, <2>1, <2>3 DEF Done
    <3> QED BY <1>9, <2>1, <2>3, <3>1, <3>2 DEF WaitOK
  <2> QED BY <1>9, <2>1, <2>2, <2>3 DEF TalkOK, FoundOK, MoreOK, AckOK, WaitOK, NextOK
<1>12. \A h \in Run : gplt'[h].pc \notin {"more", "work"}
  BY <1>6, <1>8
<1>13. \A i \in 1 .. Len(Replies') : i \in 1 .. Len(Replies) \/ i = Len(Replies) + 1
  BY <1>4
<1>14. NoneAnswered("check") /\ gplt[g].req[2] # "check" => NoneAnswered("check")'
  BY <1>4, <1>13 DEF NoneAnswered
<1>15. NoCheck'
  <2> SUFFICES ASSUME pc # "poll", mq # 0 PROVE NoneAsked("check")' /\ NoneAnswered("check")'
    BY <1>9 DEF NoCheck
  <2>1. NoneAsked("check") /\ NoneAnswered("check")
    BY DEF Core, NoCheck
  <2>2. gplt[g].req[2] # "check"
    BY <1>1, <2>1 DEF NoneAsked
  <2>3. NoneAsked("check")'
    BY <1>9, <1>12, <2>1 DEF NoneAsked
  <2> QED BY <1>14, <2>1, <2>2, <2>3
<1>16. NoQuit'
  BY <1>9, <1>12 DEF Core, NoQuit, NoneAsked
<1>17. ASSUME pc = "poll" PROVE PollOK'
  <2>1. NoneAnswered("check")
    BY <1>1, <1>17 DEF Core, PollOK, NoneAnswered, ReaderAt
  <2>2. gplt[g].req[2] = "check" => Asked = <<>>
    BY <1>1, <1>17 DEF Core, PollOK
  <2>3. \A i \in 1 .. Len(Asked) : Asked[i].req[2] = "check" =>
              i = Len(Asked) /\ Asked[i].n = 1 /\ gplt[g].req[2] # "check"
    BY <1>1, <1>17 DEF Core, PollOK
  <2>4. \A i \in 1 .. Len(Asked') : Asked'[i].req[2] = "check" =>
              i = Len(Asked') /\ Asked'[i].n = 1 /\ NoneAnswered("check")'
    BY <1>9, <1>14, <2>1, <2>3
  <2>5. \A i \in 1 .. Len(Replies') : Replies'[i][2] = "check" =>
              i = Len(Replies') /\ Asked' = <<>>
    BY <1>4, <1>9, <1>13, <2>1, <2>2 DEF NoneAnswered
  <2> QED BY <1>8, <1>10, <1>12, <2>4, <2>5 DEF PollOK
<1>18. pc # "poll" => PollOK'
  BY <1>9 DEF PollOK
<1> QED BY <1>8, <1>11, <1>15, <1>16, <1>17, <1>18 DEF Core

\* gplt answers the request to end, which only a program that waits for the
\* answer has sent.
LEMMA ServeQuitCore ==
  ASSUME TypeOK, Core, NEW g \in Run, Serve(g), gplt[g].req[2] = "quit"
  PROVE  Core'
<1>1. /\ gplt[g].pc = "work" /\ gplt[g].pc \in Loop /\ gplt[g].pc \in Serving
      /\ UNCHANGED <<mq, sem, free, toGplt, app>>
      /\ toApp' = Send(toApp, gplt[g].chan, gplt[g].req)
  BY DEF Serve, Loop, Serving
<1>2. gplt[g].chan = mq /\ gplt[g].sem = g /\ ~free /\ mq \in Run /\ gplt[g].req \in Request
  BY <1>1 DEF Core, GpltOK, TypeOK, Id
<1>3. /\ mq # 0 /\ sem = g /\ g # 0 /\ gplt[g] # Dead
      /\ g =< run /\ (pc \in Before => g # run)
      /\ \A h \in Run : h # g => gplt[h].pc \notin Serving
  BY <1>1, Phase
<1>4. pc = "wait"
  BY <1>1, <1>3 DEF Core, NoQuit, NoneAsked
<1>5. Asked = <<>> /\ Replies = <<>> /\ gplt[g].req = Mine(req) /\ Mine(req)[2] = req
  BY <1>1, <1>4, PhaseOf DEF Mine
<1>6. /\ Replies' = Append(Replies, gplt[g].req)
      /\ \A q \in Run : q # mq => toApp'[q] = toApp[q]
  BY <1>1, <1>2, Replied
<1>7. Asked' = <<>> /\ Replies' = <<Mine(req)>> /\ req = "quit"
  BY <1>1, <1>5, <1>6, Short DEF Asked
<1>8. gplt' = [gplt EXCEPT ![g].pc = "end"]
  BY DEF Serve
<1>9. /\ gplt'[g].pc = "end" /\ gplt'[g].chan = mq /\ gplt'[g].sem = g
      /\ \A h \in Run : h # g => gplt'[h] = gplt[h]
  BY <1>2, <1>8 DEF TypeOK
<1>10. \A h \in Run : /\ gplt'[h].pc \notin Serving /\ gplt'[h].pc \notin {"more", "work"}
                      /\ gplt'[h].pc \notin Loop /\ gplt'[h].pc \notin Starting
  <2> TAKE h \in Run
  <2>1. CASE h = g
    BY <1>9, <2>1 DEF Serving, Loop, Starting
  <2>2. CASE h # g
    BY <1>3, <1>9, <2>2 DEF Serving, Loop
  <2> QED BY <2>1, <2>2
<1>11. /\ pc' = pc /\ mq' = mq /\ sem' = sem /\ free' = free /\ run' = run /\ blank' = blank
       /\ req' = req /\ taken' = taken /\ mbchan' = mbchan
       /\ Mine(req)' = Mine(req) /\ Mine("ack")' = Mine("ack") /\ pc \notin Before
       /\ run \in Nat /\ g \in Nat
  BY <1>1, <1>4 DEF Mine, app, Before, TypeOK, Id, Run
<1>12. QueueOK'
  BY <1>1, <1>6, <1>11 DEF Core, QueueOK
<1>13. GpltOK'
  <2>1. \A h \in Run : gplt'[h].pc = "end" =>
              gplt'[h].sem = h /\ gplt'[h].chan # 0 /\ (sem' = h => ~free')
    BY <1>2, <1>3, <1>9, <1>11 DEF Core, GpltOK
  <2>2. \A h \in Run : h > run' => gplt'[h] = Dead
    BY <1>3, <1>9, <1>11 DEF Core, GpltOK
  <2> QED BY <1>10, <1>11, <2>1, <2>2 DEF GpltOK
<1>14. SemOK'
  BY <1>2, <1>4, <1>11 DEF Core, SemOK, Before
<1>15. TalkOK'
  <2>1. Done'
    BY <1>10 DEF Done, ReaderAt
  <2> QED BY <1>4, <1>7, <1>11, <2>1 DEF TalkOK, FoundOK, MoreOK, AckOK, WaitOK, NextOK
<1>16. SessionOK'
  BY <1>4, <1>7, <1>11 DEF Core, SessionOK, Session
<1>17. OutsideOK'
  BY <1>4, <1>11 DEF OutsideOK, Session
<1>18. NoCheck'
  <2>1. Len(<<>>) = 0
    OBVIOUS
  <2>2. NoneAsked("check")'
    BY <1>7, <1>10, <2>1 DEF NoneAsked
  <2>3. NoneAnswered("check")'
    BY <1>5, <1>7, Short DEF NoneAnswered
  <2> QED BY <2>2, <2>3 DEF NoCheck
<1>19. NoQuit' /\ PollOK'
  BY <1>4, <1>11 DEF NoQuit, PollOK
<1>20. BlankOK'
  <2>1. run \in Run /\ gplt'[g] # Dead
    BY <1>4, <1>9 DEF Core, SemOK, TypeOK, Id, Dead
  <2> QED BY <1>4, <1>9, <1>11, <2>1 DEF Core, BlankOK, Session
<1> QED BY <1>12, <1>13, <1>14, <1>15, <1>16, <1>17, <1>18, <1>19, <1>20 DEF Core

\* gplt is gone: it has ended and removes its semaphore, or it dies and does not.
LEMMA GoneCore ==
  ASSUME TypeOK, Core, NEW g \in Run, gplt[g].pc \in Loop \cup {"end"},
         gplt' = [gplt EXCEPT ![g] = Corpse(g)],
         \/ UNCHANGED <<sem, free>>
         \/ gplt[g].pc = "end" /\ FreeSem(gplt[g].sem),
         UNCHANGED <<mq, toGplt, toApp, app>>
  PROVE  Core'
<1>1. /\ gplt'[g] = Corpse(g) /\ gplt'[g].pc = "dead" /\ gplt'[g].chan = gplt[g].chan
      /\ \A h \in Run : h # g => gplt'[h] = gplt[h]
  BY DEF Corpse, Dead, TypeOK
<1>2. gplt[g].pc \notin Starting /\ gplt[g].pc # "dead" /\ gplt[g] # Dead
  BY DEF Loop, Starting, Dead
<1>3. gplt[g].chan # 0 /\ gplt[g].sem = g /\ g # 0
  BY DEF Core, GpltOK, Run
<1>4. gplt'[g] # Dead
  BY <1>1, <1>3 DEF Dead
<1>5. ~(g > run \/ (g = run /\ pc \in Before))
  BY <1>2 DEF Core, GpltOK
<1>6. \A h \in Run : gplt'[h].pc \in Serving \cup {"end", "more", "work"} =>
         h # g /\ gplt'[h] = gplt[h]
  BY <1>1 DEF Serving, Loop, Starting
<1>7. \/ sem' = sem /\ free' = free
      \/ sem = g /\ gplt[g].pc = "end" /\ ~free /\ sem' = 0 /\ free' = FALSE
  BY <1>3 DEF FreeSem, Core, GpltOK, TypeOK
<1>8. Over' => Over
  <2>1. ASSUME sem' = sem, free' = free, Over' PROVE Over
    <3>1. sem = 0 \/ gplt'[sem].pc = "end"
      BY <2>1 DEF Over
    <3>2. sem # 0 => sem \in Run
      BY DEF TypeOK, Id
    <3> QED BY <1>6, <3>1, <3>2 DEF Over
  <2> QED BY <1>7, <2>1 DEF Over
<1>9. /\ pc' = pc /\ mq' = mq /\ run' = run /\ blank' = blank /\ left' = left
      /\ req' = req /\ taken' = taken /\ mbchan' = mbchan /\ smchan' = smchan
      /\ Asked' = Asked /\ Replies' = Replies
      /\ Mine(req)' = Mine(req) /\ Mine("ack")' = Mine("ack") /\ OneMore' = OneMore
      /\ \A k : FirstOf(k)' = FirstOf(k)
      /\ run \in Nat /\ g \in Nat
  BY DEF Mine, app, Asked, Replies, OneMore, FirstOf, TypeOK, Id, Run
<1>10. /\ \A S : ReaderAt(S) => ReaderAt(S)'
       /\ \A k : Expects(k) => Expects(k)'
       /\ Works => Works'
       /\ Done => Done'
  BY <1>6, <1>9 DEF ReaderAt, Expects, Works, Done
<1>11. QueueOK'
  BY <1>9 DEF Core, QueueOK
<1>12. GpltOK'
  <2> SUFFICES ASSUME NEW h \in Run
               PROVE  (/\ gplt[h].pc \in Starting =>
                            /\ sem = h /\ free /\ mq # 0
                            /\ gplt[h].pc # "born" => gplt[h].chan = mq
                            /\ gplt[h].pc = "grab" => gplt[h].sem = h
                       /\ gplt[h].pc \in Loop =>
                            sem = h /\ ~free /\ mq # 0 /\ gplt[h].chan = mq /\ gplt[h].sem = h
                       /\ gplt[h].pc = "more" => gplt[h].need > 0
                       /\ gplt[h].pc = "end" =>
                            gplt[h].sem = h /\ gplt[h].chan # 0 /\ (sem = h => ~free)
                       /\ h > run \/ (h = run /\ pc \in Before) => gplt[h] = Dead)'
    BY DEF GpltOK
  <2>1. CASE h = g
    BY <1>1, <1>5, <1>9, <2>1 DEF Starting, Loop
  <2>2. CASE h # g
    <3>1. gplt'[h] = gplt[h]
      BY <1>1, <2>2
    <3>2. CASE sem' = sem /\ free' = free
      BY <1>9, <3>1, <3>2 DEF Core, GpltOK
    <3>3. CASE sem = g /\ sem' = 0 /\ free' = FALSE
      BY <1>9, <2>2, <3>1, <3>3 DEF Core, GpltOK, Run
    <3> QED BY <1>7, <3>2, <3>3
  <2> QED BY <2>1, <2>2
<1>13. SemOK'
  <2>1. CASE sem' = sem /\ free' = free
    <3>1. free /\ gplt[sem].pc \in Starting => gplt'[sem].pc \in Starting
      <4>1. free => sem \in Run
        BY DEF Core, SemOK, TypeOK, Id
      <4> QED BY <1>1, <1>2, <4>1
    <3> QED BY <1>9, <2>1, <3>1 DEF Core, SemOK
  <2>2. CASE sem = g /\ ~free /\ sem' = 0 /\ free' = FALSE
    <3>1. pc \in Before \ {"fork"} => run # 0
      BY DEF Core, SemOK, Before
    <3> QED BY <1>9, <2>2, <3>1 DEF Core, SemOK
  <2> QED BY <1>7, <2>1, <2>2
<1>14. TalkOK'
  <2>1. FoundOK' /\ NextOK'
    BY <1>9, <1>10 DEF Core, TalkOK, FoundOK, NextOK
  <2>2. MoreOK'
    BY <1>9, <1>10 DEF Core, TalkOK, MoreOK
  <2>3. AckOK'
    BY <1>9, <1>10 DEF Core, TalkOK, AckOK
  <2>4. WaitOK'
    BY <1>9, <1>10 DEF Core, TalkOK, WaitOK
  <2> QED BY <2>1, <2>2, <2>3, <2>4 DEF TalkOK
<1>15. SessionOK'
  BY <1>8, <1>9 DEF Core, SessionOK
<1>16. OutsideOK'
  <2>1. free' => free
    BY <1>7
  <2> QED BY <1>8, <1>9, <2>1 DEF Core, OutsideOK, Quiet
<1>17. NoneAnswered("check") => NoneAnswered("check")'
  BY <1>9 DEF NoneAnswered
<1>18. \A f : NoneAsked(f) => NoneAsked(f)'
  BY <1>6, <1>9 DEF NoneAsked
<1>19. NoCheck' /\ NoQuit'
  BY <1>9, <1>17, <1>18 DEF Core, NoCheck, NoQuit
<1>20. PollOK'
  BY <1>6, <1>8, <1>9, <1>10, <1>17 DEF Core, PollOK
<1>21. BlankOK'
  <2>1. Living' \subseteq Living
    BY <1>1 DEF Living
  <2>2. pc \in Session => run \in Run
    BY DEF Core, SemOK, TypeOK, Id, Session
  <2> QED BY <1>1, <1>4, <1>9, <1>17, <2>1, <2>2 DEF Core, BlankOK
<1> QED BY <1>11, <1>12, <1>13, <1>14, <1>15, <1>16, <1>19, <1>20, <1>21 DEF Core

\* Every step of gplt keeps the invariant.  CSGRAB always finds the semaphore.
LEMMA GpltCore ==
  ASSUME TypeOK, Core, NEW g \in Run, GpltStep(g)
  PROVE  Core'
<1>1. CASE Attach(g)
  <2>1. /\ gplt[g].pc \in Starting /\ gplt' = [gplt EXCEPT ![g].pc = "lookup", ![g].chan = mq]
        /\ UNCHANGED <<ipc, app>>
    BY <1>1 DEF Attach, Starting
  <2>2. /\ gplt'[g].pc = "lookup" /\ gplt'[g].chan = mq
        /\ \A h \in Run : h # g => gplt'[h] = gplt[h]
    BY <2>1 DEF TypeOK
  <2> QED BY <2>1, <2>2, StartCore
<1>2. CASE Lookup(g)
  <2>1. /\ gplt[g].pc \in Starting /\ gplt[g].pc # "born"
        /\ gplt' = [gplt EXCEPT ![g].pc = "grab", ![g].sem = sem]
        /\ UNCHANGED <<ipc, app>>
    BY <1>2 DEF Lookup, Starting
  <2>2. gplt[g].chan = mq /\ sem = g
    BY <2>1 DEF Core, GpltOK
  <2>3. /\ gplt'[g].pc = "grab" /\ gplt'[g].chan = mq /\ gplt'[g].sem = g
        /\ \A h \in Run : h # g => gplt'[h] = gplt[h]
    BY <2>1, <2>2 DEF TypeOK
  <2> QED BY <2>1, <2>3, StartCore
<1>3. CASE Stop(g)
  <2>1. gplt[g].pc = "grab" /\ gplt[g].pc \in Starting /\ (sem # gplt[g].sem \/ sem = 0)
    BY <1>3 DEF Stop, Starting
  <2>2. sem = g /\ gplt[g].sem = g /\ g # 0
    BY <2>1 DEF Core, GpltOK, Run
  <2> QED BY <2>1, <2>2
<1>4. CASE Leave(g)
  BY <1>4, GoneCore DEF Leave
<1> QED BY <1>1, <1>2, <1>3, <1>4, GrabCore, ReadFirstCore, ReadMoreCore, ServeCore,
           ServeQuitCore DEF GpltStep

\* A gplt that dies, at a place where that does no harm.
LEMMA DieCore ==
  ASSUME TypeOK, Core, NEW g \in Run, Die(g), ~upset'
  PROVE  Core'
<1>1. gplt[g].pc \in Loop \cup {"end"}
  BY DEF Die, DeathHarms, Living, TypeOK
<1> QED BY <1>1, GoneCore DEF Die, ipc

-----------------------------------------------------------------------------
\* Nothing has been started yet.
LEMMA InitPlot == Init => PlotInv
<1> SUFFICES ASSUME Init PROVE PlotInv
  OBVIOUS
<1>1. \A g \in Run : gplt[g] = Dead /\ gplt[g].pc = "dead"
  BY DEF Init, Dead
<1>2. Dead \in Process
  BY PlotQueueAssumption DEF Dead, Process, Id, Request, Func
<1>3. <<>> \in Seq(Packet) /\ <<>> \in Seq(Request) /\ <<0, "none">> \in Request
  BY DEF Request, Id, Func
<1>4. TypeOK
  <2>1. gplt = [g \in Run |-> Dead] /\ gplt \in [Run -> Process]
    BY <1>2 DEF Init
  <2>2. toGplt \in [Run -> Seq(Packet)] /\ toApp \in [Run -> Seq(Request)]
    BY <1>3 DEF Init
  <2>3. 0 \in 0 .. MaxPack /\ 0 \in 0 .. MaxFault /\ 0 \in Id
    BY PlotQueueAssumption DEF Id
  <2>4. "none" \in Func /\ "leave" \in Prog
    BY DEF Func, Prog
  <2>5. gplt \in [Run -> [pc : Loop \cup Starting \cup {"dead", "end"}, chan : Id,
                         sem : Id, req : Request, need : 0 .. MaxPack]]
    BY <2>1 DEF Process
  <2> QED BY <1>3, <2>2, <2>3, <2>4, <2>5 DEF Init, TypeOK
<1>5. \A g \in Run : /\ gplt[g].pc \notin Loop /\ gplt[g].pc \notin Starting
                     /\ gplt[g].pc \notin {"more", "work", "end"}
  BY <1>1 DEF Loop, Starting
<1>6. QueueOK /\ GpltOK
  BY <1>1, <1>5 DEF Init, QueueOK, GpltOK
<1>7. SemOK /\ TalkOK /\ SessionOK
  BY DEF Init, SemOK, Before, TalkOK, FoundOK, MoreOK, AckOK, WaitOK, NextOK, SessionOK, Session
<1>8. OutsideOK /\ NoCheck /\ NoQuit /\ PollOK
  BY DEF Init, OutsideOK, Quiet, Before, NoCheck, NoQuit, PollOK
<1>9. BlankOK
  BY DEF Init, BlankOK, Before, Session
<1> QED BY <1>4, <1>6, <1>7, <1>8, <1>9 DEF PlotInv, Core

\* Every step keeps PlotInv: action by action, with the lemmas above.
LEMMA StepPlot == PlotInv /\ [Next]_vars => PlotInv'
<1> SUFFICES ASSUME PlotInv, [Next]_vars PROVE PlotInv'
  OBVIOUS
<1>1. TypeOK'
  BY TypeStep
<1>2. TypeOK
  BY DEF PlotInv
<1>3. ASSUME Next, ~upset' PROVE Core'
  <2>1. Core /\ ~upset
    BY <1>3 DEF PlotInv, Next
  <2> QED BY <1>2, <1>3, <2>1, BeginCore, AppCore, KillCore, GpltCore, DieCore DEF Next
<1>4. ASSUME UNCHANGED vars, ~upset' PROVE Core'
  <2>1. Core
    BY <1>4 DEF PlotInv, vars
  <2>2. /\ QueueOK' /\ GpltOK' /\ SemOK'
    BY <1>4, <2>1 DEF Core, vars, QueueOK, GpltOK, SemOK
  <2>3. TalkOK' /\ SessionOK'
    BY <1>4, <2>1 DEF Core, vars, TalkOK, FoundOK, MoreOK, AckOK, WaitOK, NextOK, SessionOK,
       Asked, Replies, ReaderAt, Expects, Works, Done, Over, FirstOf, OneMore, Mine
  <2>4. OutsideOK' /\ NoCheck' /\ NoQuit'
    BY <1>4, <2>1 DEF Core, vars, OutsideOK, Quiet, NoCheck, NoQuit, NoneAsked, NoneAnswered,
       Asked, Replies, Over
  <2>5. PollOK' /\ BlankOK'
    BY <1>4, <2>1 DEF Core, vars, PollOK, BlankOK, NoneAnswered, Asked, Replies, ReaderAt,
       Over, Living
  <2> QED BY <2>2, <2>3, <2>4, <2>5 DEF Core
<1> QED BY <1>1, <1>3, <1>4 DEF PlotInv

\* PlotInv at all times.
LEMMA SpecPlot == Spec => []PlotInv
BY InitPlot, StepPlot, PTL DEF Spec

\* The types of the state, in every state.
THEOREM TypesPlot == Spec => []TypeOK
<1>1. PlotInv => TypeOK
  BY DEF PlotInv
<1> QED BY <1>1, SpecPlot, PTL

(***************************************************************************)
(* GGET and GPUT take any message for the answer, and the messages they    *)
(* find are the answers to what this program asked, whatever programs and  *)
(* gplts before it have left on the queue.                                 *)
(***************************************************************************)
THEOREM RepliesAreOwn == Spec => []OwnReplies
<1>1. PlotInv => OwnReplies
  <2> SUFFICES ASSUME TypeOK, Core PROVE OwnReplies
    BY DEF PlotInv, OwnReplies
  <2>1. pc \in {"none", "next"} \cup {"found", "more", "ack", "wait"} \cup Before
    BY DEF TypeOK, Before
  <2> QED BY <2>1 DEF Core, TalkOK, NextOK, SessionOK, Session, OutsideOK, OwnReplies
<1> QED BY <1>1, SpecPlot, PTL

(***************************************************************************)
(* Two gplt never read one queue, and none reads a queue that is gone: the *)
(* one that reads is the one whose number the semaphore bears.             *)
(***************************************************************************)
THEOREM ReadsAlone == Spec => []OneReader
<1>1. PlotInv => OneReader
  BY DEF PlotInv, Core, GpltOK, OneReader
<1> QED BY <1>1, SpecPlot, PTL

(***************************************************************************)
(* CCHECK is not deceived by what a dead gplt has left: a program that     *)
(* began when no gplt lived starts one.                                    *)
(***************************************************************************)
THEOREM FindsTheDead == Spec => []DeadIsFound
<1>1. PlotInv => DeadIsFound
  BY DEF PlotInv, Core, BlankOK, Session, DeadIsFound
<1> QED BY <1>1, SpecPlot, PTL

-----------------------------------------------------------------------------
(***************************************************************************)
(* How far it is to the end.  A program goes down from place to place,     *)
(* and through the rounds of its requests, a round being longer than any   *)
(* request.  gplt goes down too, but for a packet it reads, which the      *)
(* queue no longer holds.                                                  *)
(***************************************************************************)
Round == 2 * MaxPack + 2

Talking == {"next", "wait", "ack", "more"}

Ahead ==
    IF pc \notin Talking THEN 3 * Round
    ELSE IF req = "init" THEN (IF prog = "gpend" THEN Round ELSE 2 * Round)
    ELSE IF req = "plot" THEN Round ELSE 0

Position ==
    CASE pc = "queue" -> 6 [] pc = "lock" -> 5 [] pc = "test" -> 4 [] pc = "poll" -> 3
      [] pc = "absent" -> 2 [] pc = "fork" -> 1 [] pc = "found" -> 0
      [] pc = "more" -> 2 * left + 1 [] pc = "ack" -> 2 * left + 2
      [] pc = "wait" -> 1 [] pc = "next" -> 0

Program == IF pc = "none" THEN 0 ELSE 1 + Ahead + Position

Place(l) ==
    CASE l = "born" -> 7 [] l = "lookup" -> 6 [] l = "grab" -> 5
      [] l \in {"more", "work"} -> 4 [] l = "read" -> 2 [] l = "end" -> 1
      [] l = "dead" -> 0
Places == [g \in Run |-> Place(gplt[g].pc)]

\* A set with f[g] members for each g.
Ladder(f) == {x \in Run \X (1 .. 7) : x[2] =< f[x[1]]}

Messages == IF mq = 0 THEN 0 ELSE 3 * Len(Asked) + Len(Replies)
Plot == Cardinality(Ladder(Places)) + Messages

Nearer ==
    \/ run' > run
    \/ run' = run /\ Program' < Program
    \/ run' = run /\ Program' = Program /\ Plot' < Plot

\* The ladder is finite.
LEMMA LadderFinite ==
  ASSUME NEW f
  PROVE  IsFiniteSet(Ladder(f)) /\ Cardinality(Ladder(f)) \in Nat
<1>1. IsFiniteSet(Run) /\ IsFiniteSet(1 .. 7)
  <2>1. 1 \in Int /\ MaxRun \in Int /\ 7 \in Int
    BY PlotQueueAssumption
  <2>2. IsFiniteSet(1 .. MaxRun) /\ IsFiniteSet(1 .. 7)
    BY <2>1, FS_Interval
  <2> QED BY <2>2 DEF Run
<1>2. IsFiniteSet(Run \X (1 .. 7))
  BY <1>1, FS_Product
<1>3. Ladder(f) \in SUBSET (Run \X (1 .. 7))
  BY DEF Ladder
<1> QED BY <1>2, <1>3, FS_Subset, FS_CardinalityType

\* A ladder of which one rung has another length.
LEMMA LadderStep ==
  ASSUME NEW f \in [Run -> 0 .. 7], NEW h \in [Run -> 0 .. 7], NEW g \in Run,
         \A i \in Run : i # g => h[i] = f[i]
  PROVE  Cardinality(Ladder(h)) = Cardinality(Ladder(f)) + (h[g] - f[g])
<1> DEFINE Rest == {x \in Ladder(f) : x[1] # g}
           Rung(n) == {g} \X (1 .. n)
<1>1. ASSUME NEW e \in [Run -> 0 .. 7], \A i \in Run : i # g => e[i] = f[i]
      PROVE  Cardinality(Ladder(e)) = Cardinality(Rest) + e[g]
  <2>1. Ladder(e) = Rest \cup Rung(e[g])
    <3>1. ASSUME NEW x \in Ladder(e) PROVE x \in Rest \cup Rung(e[g])
      <4>1. x \in Run \X (1 .. 7) /\ x[2] =< e[x[1]]
        BY <3>1 DEF Ladder
      <4>2. CASE x[1] = g
        <5>1. x[2] \in 1 .. e[g] /\ x = <<x[1], x[2]>>
          BY <4>1, <4>2
        <5> QED BY <4>2, <5>1
      <4>3. CASE x[1] # g
        BY <1>1, <4>1, <4>3 DEF Ladder
      <4> QED BY <4>2, <4>3
    <3>2. ASSUME NEW x \in Rest PROVE x \in Ladder(e)
      BY <1>1, <3>2 DEF Ladder
    <3>3. ASSUME NEW x \in Rung(e[g]) PROVE x \in Ladder(e)
      <4>1. x \in {g} \X (1 .. e[g]) /\ e[g] \in 0 .. 7
        BY <1>1, <3>3
      <4>2. x \in Run \X (1 .. 7) /\ x[1] = g /\ x[2] =< e[g]
        BY <4>1
      <4> QED BY <4>2 DEF Ladder
    <3> QED BY <3>1, <3>2, <3>3
  <2>2. IsFiniteSet(Rest)
    <3>1. Rest \in SUBSET Ladder(f)
      OBVIOUS
    <3> QED BY <3>1, LadderFinite, FS_Subset
  <2>3. e[g] \in Nat /\ e[g] \in Int
    BY <1>1
  <2>4. IsFiniteSet(1 .. e[g]) /\ Cardinality(1 .. e[g]) = e[g]
    BY <2>3, FS_Interval
  <2>5. IsFiniteSet({g}) /\ Cardinality({g}) = 1
    BY FS_Singleton
  <2>6. IsFiniteSet(Rung(e[g])) /\ Cardinality(Rung(e[g])) = e[g]
    <3>1. /\ IsFiniteSet({g} \X (1 .. e[g]))
          /\ Cardinality({g} \X (1 .. e[g])) = Cardinality({g}) * Cardinality(1 .. e[g])
      BY <2>4, <2>5, FS_Product
    <3> QED BY <2>3, <2>4, <2>5, <3>1
  <2>7. Rest \cap Rung(e[g]) = {}
    OBVIOUS
  <2>8. Cardinality(Rest \cap Rung(e[g])) = 0
    BY <2>7, FS_EmptySet
  <2> HIDE DEF Rest, Rung
  <2>9. Cardinality(Rest) \in Nat
    BY <2>2, FS_CardinalityType
  <2>10. Cardinality(Rest \cup Rung(e[g]))
           = Cardinality(Rest) + Cardinality(Rung(e[g])) - Cardinality(Rest \cap Rung(e[g]))
    BY <2>2, <2>6, FS_Union
  <2> QED BY <2>1, <2>3, <2>6, <2>8, <2>9, <2>10
<1>2. Cardinality(Rest) \in Nat
  <2>1. Rest \in SUBSET Ladder(f)
    OBVIOUS
  <2> QED BY <2>1, LadderFinite, FS_Subset, FS_CardinalityType
<1>3. f[g] \in Nat /\ h[g] \in Nat
  OBVIOUS
<1> HIDE DEF Rest
<1> QED BY <1>1, <1>2, <1>3

\* The places are numbers up to 7.
LEMMA PlacesType ==
  ASSUME TypeOK
  PROVE  Places \in [Run -> 0 .. 7]
<1>1. ASSUME NEW l \in Loop \cup Starting \cup {"dead", "end"} PROVE Place(l) \in 0 .. 7
  BY <1>1 DEF Place, Loop, Starting
<1>2. \A g \in Run : gplt[g].pc \in Loop \cup Starting \cup {"dead", "end"}
  BY DEF TypeOK
<1> QED BY <1>1, <1>2 DEF Places

\* What is left to do is a number, for the program and for gplt.
LEMMA DistanceNat ==
  ASSUME TypeOK
  PROVE  Program \in Nat /\ Messages \in Nat /\ Plot \in Nat
<1>1. Ahead \in Nat
  BY PlotQueueAssumption DEF Ahead, Round
<1>2. left \in Nat
  BY DEF TypeOK
<1>3. pc # "none" => Position \in Nat
  BY <1>2 DEF TypeOK, Position
<1>4. Program \in Nat
  BY <1>1, <1>3 DEF Program
<1>5. Messages \in Nat
  BY DEF TypeOK, Messages, Asked, Replies, Id
<1>6. Plot \in Nat
  BY <1>5, LadderFinite DEF Plot
<1> QED BY <1>4, <1>5, <1>6

\* A step of a program brings it nearer to its end, or throws away a reply.
LEMMA AppNearer ==
  ASSUME TypeOK, Core, AppStep \/ Kill
  PROVE  Nearer
<1>1. run' = run /\ prog' = prog
  <2>1. CASE Queue \/ Lock \/ Test \/ Poll \/ GiveUp \/ Install
    BY <2>1 DEF Queue, Lock, Test, Poll, GiveUp, Install
  <2>2. CASE NothingToEnd \/ Fork \/ AskMore \/ Receive \/ End \/ Kill
    BY <2>2 DEF NothingToEnd, Fork, AskMore, Receive, End, Kill
  <2>3. ASSUME NEW n \in 1 .. MaxPack, Ask(n) PROVE run' = run /\ prog' = prog
    BY <2>3 DEF Ask
  <2> QED BY <2>1, <2>2, <2>3 DEF AppStep
<1>2. left \in 0 .. MaxPack /\ MaxPack \in Nat \ {0} /\ Ahead \in Nat
  BY PlotQueueAssumption DEF TypeOK, Ahead, Round
<1>3. ASSUME pc' = "none", pc # "none" PROVE Program' < Program
  <2>1. Program' = 0
    BY <1>3 DEF Program
  <2>2. Position \in Nat
    BY <1>2, <1>3 DEF TypeOK, Position
  <2> QED BY <1>2, <1>3, <2>1, <2>2 DEF Program
<1>4. CASE Kill
  BY <1>1, <1>3, <1>4 DEF Kill, Goto, Nearer
<1>5. CASE NothingToEnd \/ End \/ (Test /\ pc' = "none")
  BY <1>1, <1>3, <1>5 DEF NothingToEnd, End, Test, Goto, Nearer
<1>6. ASSUME pc \in Before, pc' \in (Before \cup {"found"}) \ {"queue"}, Position' < Position
      PROVE  Nearer
  <2>1. Ahead = 3 * Round /\ Ahead' = 3 * Round /\ Round \in Nat
    BY <1>2, <1>6 DEF Ahead, Round, Talking, Before
  <2>2. Position \in Nat
    BY <1>6 DEF Before, Position
  <2>3. Position' \in Nat
    BY <1>6 DEF Before, Position
  <2>4. Program' < Program
    <3>1. Program = 1 + 3 * Round + Position
      BY <1>6, <2>1 DEF Program, Before
    <3>2. Program' = 1 + 3 * Round + Position'
      BY <1>6, <2>1 DEF Program, Before
    <3> DEFINE p1 == Position
               p2 == Position'
               r  == Round
    <3>3. p2 < p1 /\ p1 \in Nat /\ p2 \in Nat /\ r \in Nat
      BY <1>6, <2>1, <2>2, <2>3
    <3>4. Program = 1 + 3 * r + p1 /\ Program' = 1 + 3 * r + p2
      BY <3>1, <3>2
    <3> HIDE DEF p1, p2, r
    <3>5. 1 + 3 * r + p2 < 1 + 3 * r + p1
      BY <3>3
    <3> QED BY <3>4, <3>5
  <2> QED BY <1>1, <2>4 DEF Nearer
<1>7. CASE Queue
  BY <1>6, <1>7 DEF Queue, Goto, Before, Position
<1>8. CASE Lock
  BY <1>6, <1>8 DEF Lock, Goto, Before, Position
<1>9. CASE Test /\ pc' # "none"
  BY <1>6, <1>9 DEF Test, Goto, Before, Position
<1>10. CASE GiveUp
  BY <1>6, <1>10 DEF GiveUp, Goto, Before, Position
<1>11. CASE Install
  BY <1>6, <1>11 DEF Install, Goto, Before, Position
<1>12. CASE Fork
  BY <1>6, <1>12 DEF Fork, Goto, Before, Position
<1>13. CASE Poll /\ pc' # "poll"
  BY <1>6, <1>13 DEF Poll, Goto, Before, Position
<1>14. CASE Poll /\ pc' = "poll"
  <2>1. /\ pc = "poll" /\ mbchan = mq /\ mq \in Run /\ mq # 0 /\ Replies # <<>>
        /\ Replies \in Seq(Request) /\ toApp \in [Run -> Seq(Request)]
    BY <1>14 DEF Poll, Core, QueueOK, TypeOK, Id, Replies
  <2>2. /\ mq' = mq /\ toGplt' = toGplt /\ Replies' = Tail(Replies) /\ gplt' = gplt
    BY <1>14, <2>1 DEF Poll, Replies
  <2>3. Len(Replies) \in Nat \ {0} /\ Len(Replies') = Len(Replies) - 1
    BY <2>1, <2>2, TakeFirst
  <2>4. Len(Asked) \in Nat /\ Asked' = Asked
    BY <2>1, <2>2 DEF Asked, TypeOK
  <2>5. Messages' < Messages
    BY <2>1, <2>2, <2>3, <2>4 DEF Messages
  <2>6. Places' = Places
    BY <2>2 DEF Places
  <2>7. Ladder(Places)' = Ladder(Places)
    BY <2>6 DEF Ladder
  <2>8. Plot' < Plot
    <3>1. Messages \in Nat /\ Cardinality(Ladder(Places)) \in Nat
      BY DistanceNat, LadderFinite
    <3>2. Messages' \in Nat
      BY <2>1, <2>2, <2>3, <2>4 DEF Messages
    <3> QED BY <2>5, <2>7, <3>1, <3>2 DEF Plot
  <2>9. Program' = Program
    BY <1>14, <2>1 DEF Program, Ahead, Position, Talking
  <2> QED BY <1>1, <2>8, <2>9 DEF Nearer
<1> DEFINE a1 == Ahead
           a2 == Ahead'
           p1 == Position
           p2 == Position'
<1>15. ASSUME pc \in Talking \cup {"found"}, pc' \in Talking,
              p1 \in Nat, p2 \in Nat, a2 \in Nat, a2 + p2 < a1 + p1
       PROVE  Nearer
  <2>1. Program = 1 + a1 + p1
    BY <1>15 DEF Program, Talking
  <2>2. Program' = 1 + a2 + p2
    BY <1>15 DEF Program, Talking
  <2>3. a1 \in Nat
    BY <1>2
  <2> HIDE DEF p1, p2, a1, a2
  <2>4. 1 + a2 + p2 < 1 + a1 + p1
    BY <1>15, <2>3
  <2> QED BY <1>1, <2>1, <2>2, <2>4 DEF Nearer
<1>16. ASSUME NEW n \in 1 .. MaxPack, Ask(n) PROVE Nearer
  <2>1. /\ pc = "found" \/ (pc = "next" /\ req \notin {"leave", "quit"})
        /\ req' = Asks /\ left' = n - 1 /\ pc' \in {"wait", "more"}
        /\ Asks # "plot" => n = 1
        /\ n = 1 => pc' = "wait"
    BY <1>16 DEF Ask, Goto
  <2>2. n \in Nat /\ 1 =< n /\ n =< MaxPack /\ MaxPack \in Nat
    BY <1>2
  <2>3. p1 = 0
    BY <2>1 DEF Position
  <2>4. p2 \in Nat /\ p2 =< 2 * n - 1
    BY <2>1, <2>2 DEF Position
  <2>5. Asks # "plot" => p2 = 1
    BY <2>1, <2>2 DEF Position
  <2>6. CASE pc = "found"
    <3>1. a1 = 3 * Round /\ Asks = "init"
      BY <2>6 DEF Ahead, Talking, Asks
    <3>2. a2 \in Nat /\ a2 =< 2 * Round
      BY <1>2, <2>1, <3>1 DEF Ahead, Talking, Round
    <3> HIDE DEF a1, a2, p1, p2
    <3>3. a2 + p2 < a1 + p1 /\ p1 \in Nat /\ p2 \in Nat /\ a2 \in Nat
      BY <1>2, <2>3, <2>4, <2>5, <3>1, <3>2 DEF Round
    <3> QED BY <1>15, <2>1, <2>6, <3>3 DEF Talking
  <2>7. CASE pc = "next" /\ req = "init" /\ prog # "gpend"
    <3>1. a1 = 2 * Round /\ Asks = "plot"
      BY <2>7 DEF Ahead, Talking, Asks
    <3>2. a2 = Round
      BY <2>1, <3>1 DEF Ahead, Talking
    <3> HIDE DEF a1, a2, p1, p2
    <3>3. a2 + p2 < a1 + p1 /\ p1 \in Nat /\ p2 \in Nat /\ a2 \in Nat
      BY <2>2, <2>3, <2>4, <3>1, <3>2 DEF Round
    <3> QED BY <1>15, <2>1, <2>7, <3>3 DEF Talking
  <2>8. CASE pc = "next" /\ (req = "plot" \/ (req = "init" /\ prog = "gpend"))
    <3>1. a1 = Round /\ Asks \in {"leave", "quit"}
      BY <2>8 DEF Ahead, Talking, Asks
    <3>2. a2 = 0
      BY <2>1, <3>1 DEF Ahead, Talking
    <3> HIDE DEF a1, a2, p1, p2
    <3>3. a2 + p2 < a1 + p1 /\ p1 \in Nat /\ p2 \in Nat /\ a2 \in Nat
      BY <2>2, <2>3, <2>4, <2>5, <3>1, <3>2 DEF Round
    <3> QED BY <1>15, <2>1, <2>8, <3>3 DEF Talking
  <2>9. pc = "next" => req \in {"init", "plot"}
    BY <2>1 DEF Core, SessionOK, Session
  <2> QED BY <2>1, <2>6, <2>7, <2>8, <2>9
<1>17. CASE AskMore
  <2>1. /\ pc = "more" /\ pc' = "ack" /\ req' = req /\ left' = left - 1 /\ left > 0
    BY <1>17, Plain DEF AskMore, Goto
  <2>2. a2 = a1 /\ a1 \in Nat
    BY <1>1, <1>2, <2>1 DEF Ahead, Talking
  <2>3. p1 = 2 * left + 1 /\ p2 = 2 * left
    BY <1>2, <2>1 DEF Position
  <2> HIDE DEF a1, a2, p1, p2
  <2>4. a2 + p2 < a1 + p1 /\ p1 \in Nat /\ p2 \in Nat /\ a2 \in Nat
    BY <1>2, <2>2, <2>3
  <2> QED BY <1>15, <2>1, <2>4 DEF Talking
<1>18. CASE Receive
  <2>1. /\ pc \in {"ack", "wait"} /\ req' = req /\ left' = left
        /\ pc' = IF pc = "wait" THEN "next" ELSE IF left > 0 THEN "more" ELSE "wait"
    BY <1>18 DEF Receive, Goto
  <2>2. a2 = a1 /\ a1 \in Nat
    BY <1>1, <1>2, <2>1 DEF Ahead, Talking
  <2>3. p2 < p1 /\ p1 \in Nat /\ p2 \in Nat
    BY <1>2, <2>1 DEF Position
  <2> HIDE DEF a1, a2, p1, p2
  <2>4. a2 + p2 < a1 + p1 /\ p1 \in Nat /\ p2 \in Nat /\ a2 \in Nat
    BY <1>2, <2>2, <2>3
  <2> QED BY <1>15, <2>1, <2>4 DEF Talking
<1> QED BY <1>4, <1>5, <1>7, <1>8, <1>9, <1>10, <1>11, <1>12, <1>13, <1>14, <1>16, <1>17, <1>18
        DEF AppStep

\* The rest of a step of gplt: it is at another place, and what it takes or
\* puts in the queue is not more than that.
LEMMA GpltMoves ==
  ASSUME TypeOK, NEW g \in Run, TypeOK', app' = app,
         \A h \in Run : h # g => gplt'[h] = gplt[h],
         Messages' + Place(gplt'[g].pc) < Messages + Place(gplt[g].pc)
  PROVE  Nearer
<1>1. run' = run /\ Program' = Program
  BY DEF app, Program, Ahead, Position
<1>2. Places \in [Run -> 0 .. 7]
  BY PlacesType
<1>3. Places' \in [Run -> 0 .. 7]
  <2>1. ASSUME NEW l \in Loop \cup Starting \cup {"dead", "end"} PROVE Place(l) \in 0 .. 7
    BY <2>1 DEF Place, Loop, Starting
  <2>2. \A h \in Run : gplt'[h].pc \in Loop \cup Starting \cup {"dead", "end"}
    BY DEF TypeOK
  <2> QED BY <2>1, <2>2 DEF Places
<1>4. \A h \in Run : h # g => Places'[h] = Places[h]
  BY DEF Places
<1>5. Places[g] = Place(gplt[g].pc) /\ Places'[g] = Place(gplt'[g].pc)
  BY DEF Places
<1> DEFINE f == Places
           k == Places'
           m == Messages
           n == Messages'
<1>6. m \in Nat /\ n \in Nat
  <2>1. m \in Nat
    BY DistanceNat
  <2>2. n \in Nat
    BY DEF TypeOK, Messages, Asked, Replies, Id
  <2> QED BY <2>1, <2>2
<1>7. /\ Plot = Cardinality(Ladder(f)) + m
      /\ Plot' = Cardinality(Ladder(k)) + n
  BY DEF Plot, Ladder
<1>8. n + k[g] < m + f[g]
  BY <1>5
<1>9. /\ f \in [Run -> 0 .. 7] /\ k \in [Run -> 0 .. 7]
      /\ \A h \in Run : h # g => k[h] = f[h]
  BY <1>2, <1>3, <1>4
<1> HIDE DEF f, k, m, n
<1>10. /\ Cardinality(Ladder(k)) = Cardinality(Ladder(f)) + (k[g] - f[g])
       /\ Cardinality(Ladder(f)) \in Nat /\ k[g] \in Nat /\ f[g] \in Nat
  BY <1>9, LadderStep, LadderFinite
<1>11. Cardinality(Ladder(k)) + n < Cardinality(Ladder(f)) + m
  BY <1>6, <1>8, <1>10
<1> QED BY <1>1, <1>7, <1>11 DEF Nearer

\* What the queue holds, when it stays.
LEMMA SameMessages ==
  ASSUME UNCHANGED <<mq, toGplt, toApp>>
  PROVE  Messages' = Messages
BY DEF Messages, Asked, Replies

\* What a step of gplt leaves alone.
LEMMA GpltFrame ==
  ASSUME TypeOK, NEW g \in Run, GpltStep(g)
  PROVE  /\ app' = app /\ mq' = mq /\ faults' = faults
         /\ \A h \in Run : h # g => gplt'[h] = gplt[h]
         /\ ~Leave(g) => sem' = sem
<1>1. CASE Attach(g) \/ Lookup(g)
  BY <1>1 DEF Attach, Lookup, TypeOK, ipc
<1>2. CASE Grab(g) \/ Stop(g)
  BY <1>2 DEF Grab, Stop, TypeOK
<1>3. CASE ReadFirst(g)
  BY <1>3 DEF ReadFirst, TypeOK
<1>4. CASE ReadMore(g)
  BY <1>4 DEF ReadMore, TypeOK
<1>5. CASE Serve(g)
  BY <1>5 DEF Serve, TypeOK
<1>6. CASE Leave(g)
  BY <1>6 DEF Leave, TypeOK
<1> QED BY <1>1, <1>2, <1>3, <1>4, <1>5, <1>6 DEF GpltStep

\* A step of gplt brings it nearer to the end.
LEMMA GpltNearer ==
  ASSUME TypeOK, Core, NEW g \in Run, GpltStep(g)
  PROVE  Nearer
<1>1. TypeOK' /\ Messages \in Nat
  BY TypeGplt, DistanceNat
<1>2. app' = app /\ mq' = mq
  BY GpltFrame
<1>3. \A h \in Run : h # g => gplt'[h] = gplt[h]
  BY GpltFrame
<1>4. ASSUME UNCHANGED <<mq, toGplt, toApp>>, Place(gplt'[g].pc) < Place(gplt[g].pc),
             Place(gplt'[g].pc) \in Nat, Place(gplt[g].pc) \in Nat
      PROVE  Nearer
  <2>1. Messages' = Messages
    BY <1>4, SameMessages
  <2>2. Messages' + Place(gplt'[g].pc) < Messages + Place(gplt[g].pc)
    BY <1>1, <1>4, <2>1
  <2> QED BY <1>1, <1>2, <1>3, <2>2, GpltMoves
<1>5. CASE Attach(g)
  <2>1. gplt[g].pc = "born" /\ gplt'[g].pc = "lookup" /\ UNCHANGED ipc
    BY <1>5 DEF Attach, TypeOK
  <2> QED BY <1>4, <2>1 DEF Place, ipc
<1>6. CASE Lookup(g)
  <2>1. gplt[g].pc = "lookup" /\ gplt'[g].pc = "grab" /\ UNCHANGED ipc
    BY <1>6 DEF Lookup, TypeOK
  <2> QED BY <1>4, <2>1 DEF Place, ipc
<1>7. CASE Grab(g)
  <2>1. gplt[g].pc = "grab" /\ gplt'[g].pc \in {"read", "end"} /\ UNCHANGED <<mq, toGplt, toApp>>
    BY <1>7 DEF Grab, TypeOK
  <2> QED BY <1>4, <2>1 DEF Place
<1>8. CASE Leave(g)
  <2>1. gplt[g].pc = "end" /\ gplt'[g].pc = "dead" /\ UNCHANGED <<mq, toGplt, toApp>>
    BY <1>8 DEF Leave, TypeOK, Corpse, Dead
  <2> QED BY <1>4, <2>1 DEF Place
<1>9. CASE Stop(g)
  <2>1. gplt[g].pc \in Starting /\ gplt[g].pc = "grab" /\ (sem # gplt[g].sem \/ sem = 0)
    BY <1>9 DEF Stop, Starting
  <2>2. sem = g /\ gplt[g].sem = g /\ g # 0
    BY <2>1 DEF Core, GpltOK, Run
  <2> QED BY <2>1, <2>2
<1>10. ASSUME gplt[g].pc \in Loop, HasPacket(g), TakePacket(g)
       PROVE  /\ mq # 0 /\ mq \in Run /\ Len(Asked) \in Nat \ {0} /\ Asked' = Tail(Asked)
              /\ Len(Asked') = Len(Asked) - 1
  <2>1. mq \in Run /\ Asked # <<>> /\ Asked' = Tail(Asked) /\ Asked \in Seq(Packet)
    BY <1>2, <1>10, Taken
  <2> QED BY <2>1, TakeFirst DEF Run
<1>11. CASE ReadFirst(g)
  <2>1. /\ gplt[g].pc = "read" /\ HasPacket(g) /\ TakePacket(g)
        /\ gplt'[g].pc \in {"more", "work"} /\ toApp' = toApp
    BY <1>11 DEF ReadFirst, TypeOK
  <2>2. /\ mq # 0 /\ mq \in Run /\ Len(Asked) \in Nat \ {0}
        /\ Len(Asked') = Len(Asked) - 1
    BY <1>10, <2>1 DEF Loop
  <2>3. Replies' = Replies /\ Len(Replies) \in Nat
    BY <1>2, <2>1, <2>2 DEF Replies, TypeOK
  <2>4. Messages = 3 * Len(Asked) + Len(Replies)
    BY <2>2 DEF Messages
  <2>5. Messages' = 3 * (Len(Asked) - 1) + Len(Replies)
    BY <1>2, <2>2, <2>3 DEF Messages
  <2>6. Place(gplt[g].pc) = 2 /\ Place(gplt'[g].pc) = 4
    BY <2>1 DEF Place
  <2>7. 3 * (Len(Asked) - 1) + Len(Replies) + 4 < 3 * Len(Asked) + Len(Replies) + 2
    BY <2>2, <2>3
  <2>8. Messages' + Place(gplt'[g].pc) < Messages + Place(gplt[g].pc)
    BY <2>4, <2>5, <2>6, <2>7
  <2> QED BY <1>1, <1>2, <1>3, <2>8, GpltMoves
<1>12. CASE ReadMore(g)
  <2>1. /\ gplt[g].pc = "more" /\ HasPacket(g) /\ TakePacket(g)
        /\ gplt'[g].pc \in {"more", "work"} /\ toApp' = Send(toApp, mq, <<gplt[g].req[1], "ack">>)
    BY <1>12 DEF ReadMore, TypeOK
  <2>2. /\ mq # 0 /\ mq \in Run /\ Len(Asked) \in Nat \ {0}
        /\ Len(Asked') = Len(Asked) - 1
    BY <1>10, <2>1 DEF Loop
  <2>3. <<gplt[g].req[1], "ack">> \in Request
    BY DEF TypeOK, Request
  <2>4. Len(Replies') = Len(Replies) + 1 /\ Len(Replies) \in Nat
    BY <1>2, <2>1, <2>2, <2>3, Replied
  <2>5. Messages = 3 * Len(Asked) + Len(Replies)
    BY <2>2 DEF Messages
  <2>6. Messages' = 3 * (Len(Asked) - 1) + (Len(Replies) + 1)
    BY <1>2, <2>2, <2>4 DEF Messages
  <2>7. Place(gplt[g].pc) = 4 /\ Place(gplt'[g].pc) = 4
    BY <2>1 DEF Place
  <2>8. 3 * (Len(Asked) - 1) + (Len(Replies) + 1) + 4 < 3 * Len(Asked) + Len(Replies) + 4
    BY <2>2, <2>4
  <2>9. Messages' + Place(gplt'[g].pc) < Messages + Place(gplt[g].pc)
    BY <2>5, <2>6, <2>7, <2>8
  <2> QED BY <1>1, <1>2, <1>3, <2>9, GpltMoves
<1>13. CASE Serve(g)
  <2>1. /\ gplt[g].pc = "work" /\ gplt[g].pc \in Loop
        /\ gplt'[g].pc \in {"end", "read"} /\ toGplt' = toGplt
        /\ toApp' = Send(toApp, gplt[g].chan, gplt[g].req)
    BY <1>13 DEF Serve, TypeOK, Loop
  <2>2. mq # 0 /\ mq \in Run /\ gplt[g].chan = mq
    BY <2>1 DEF Core, GpltOK, TypeOK, Id
  <2>3. gplt[g].req \in Request
    BY DEF TypeOK
  <2>4. Len(Replies') = Len(Replies) + 1 /\ Len(Replies) \in Nat
    BY <1>2, <2>1, <2>2, <2>3, Replied
  <2>5. Asked' = Asked /\ Len(Asked) \in Nat
    BY <1>2, <2>1, <2>2 DEF Asked, TypeOK
  <2>6. Messages = 3 * Len(Asked) + Len(Replies)
    BY <2>2 DEF Messages
  <2>7. Messages' = 3 * Len(Asked) + (Len(Replies) + 1)
    BY <1>2, <2>2, <2>4, <2>5 DEF Messages
  <2>8. Place(gplt[g].pc) = 4 /\ Place(gplt'[g].pc) \in {1, 2}
    BY <2>1 DEF Place
  <2>9. Messages' + Place(gplt'[g].pc) < Messages + Place(gplt[g].pc)
    <3> DEFINE n == Len(Asked)
               k == Len(Replies)
               p == Place(gplt'[g].pc)
    <3> HIDE DEF n, k, p
    <3>1. n \in Nat /\ k \in Nat /\ p \in {1, 2}
      BY <2>4, <2>5, <2>8 DEF n, k, p
    <3>2. 3 * n + (k + 1) + p < 3 * n + k + 4
      BY <3>1
    <3> QED BY <2>6, <2>7, <2>8, <3>2 DEF n, k, p
  <2> QED BY <1>1, <1>2, <1>3, <2>9, GpltMoves
<1> QED BY <1>5, <1>6, <1>7, <1>8, <1>9, <1>11, <1>12, <1>13 DEF GpltStep

\* A gplt that dies.
LEMMA DieNearer ==
  ASSUME TypeOK, NEW g \in Run, Die(g), TypeOK'
  PROVE  Nearer
<1>1. /\ app' = app /\ UNCHANGED <<mq, toGplt, toApp>> /\ gplt[g].pc # "dead"
      /\ gplt'[g].pc = "dead" /\ \A h \in Run : h # g => gplt'[h] = gplt[h]
  BY DEF Die, ipc, Living, Corpse, Dead, TypeOK
<1>2. Messages' = Messages /\ Messages \in Nat
  BY <1>1, SameMessages, DistanceNat
<1>3. Place(gplt'[g].pc) = 0 /\ Place(gplt[g].pc) \in 1 .. 7
  BY <1>1 DEF Place, TypeOK, Loop, Starting
<1>4. Messages' + Place(gplt'[g].pc) < Messages + Place(gplt[g].pc)
  BY <1>2, <1>3
<1> QED BY <1>1, <1>4, GpltMoves

(***************************************************************************)
(* No program and no gplt goes on for ever: a step brings the program      *)
(* nearer to its end, or leaves it where it is and brings gplt and the     *)
(* queue nearer to rest; only the next program of the user begins again,   *)
(* and is the next (GPUT and GGET, GGETB and GPUTB, CCHECK, which throws   *)
(* away one reply after the other).                                        *)
(***************************************************************************)
THEOREM NoEndlessTalk ==
  Spec => [](run \in 0 .. MaxRun /\ Program \in Nat /\ Plot \in Nat) /\ [][Nearer]_vars
<1>1. PlotInv => run \in 0 .. MaxRun /\ Program \in Nat /\ Plot \in Nat
  BY DistanceNat, PlotQueueAssumption DEF PlotInv, TypeOK, Id, Run
<1>2. PlotInv /\ [Next]_vars => [Nearer]_vars
  <2> SUFFICES ASSUME PlotInv, Next PROVE Nearer
    OBVIOUS
  <2>1. TypeOK /\ Core /\ ~upset
    BY DEF PlotInv, Next
  <2>2. TypeOK'
    BY TypeStep
  <2>3. ASSUME NEW p \in Prog, Begin(p) PROVE Nearer
    BY <2>1, <2>3 DEF Begin, Nearer, TypeOK, Id, Run
  <2> QED BY <2>1, <2>2, <2>3, AppNearer, GpltNearer, DieNearer DEF Next
<1> QED BY <1>1, <1>2, SpecPlot, PTL DEF Spec

-----------------------------------------------------------------------------
(***************************************************************************)
(* What a program and a gplt wait for: a program for an answer; gplt for   *)
(* the semaphore as long as it is held and there, and for a packet.        *)
(***************************************************************************)
AppGoes == pc # "none" /\ (pc \in {"ack", "wait"} => toApp[mbchan] # <<>>)

GpltGoes(g) ==
    /\ gplt[g].pc # "dead"
    /\ gplt[g].pc = "grab" => (sem = gplt[g].sem /\ sem # 0 => free)
    /\ gplt[g].pc \in {"read", "more"} => HasPacket(g)

(***************************************************************************)
(* A program waits for an answer that nobody will send only when no gplt   *)
(* lives: else one of the two goes on.                                     *)
(***************************************************************************)
WaitsForTheDead ==
    ~upset /\ pc # "none" /\ ~AppGoes /\ (\A g \in Run : ~GpltGoes(g)) => Living = {}

(***************************************************************************)
(* When gplt has been ended and everything has come to rest, nothing is    *)
(* left: no queue, no gplt, and no semaphore unless something died.        *)
(***************************************************************************)
EndsClean ==
    ~upset /\ pc = "none" /\ taken = Mine("quit") /\ mq # mbchan
           /\ (\A g \in Run : ~GpltGoes(g))
        => mq = 0 /\ Living = {} /\ (sem = 0 \/ faults > 0)

\* A gplt that does not go on reads the queue, and finds nothing.
LEMMA OnlyReaders ==
  ASSUME TypeOK, Core, NEW g \in Living, ~GpltGoes(g)
  PROVE  gplt[g].pc \in {"read", "more"} /\ mq # 0 /\ Asked = <<>>
<1>1. g \in Run /\ gplt[g].pc # "dead"
  BY DEF Living
<1>2. gplt[g].pc # "grab"
  BY <1>1 DEF Core, GpltOK, Starting, GpltGoes
<1>3. gplt[g].pc \in {"read", "more"} /\ ~HasPacket(g)
  BY <1>1, <1>2 DEF GpltGoes
<1>4. mq # 0 /\ gplt[g].chan = mq
  BY <1>1, <1>3 DEF Core, GpltOK, Loop
<1> QED BY <1>3, <1>4 DEF HasPacket, Asked

(***************************************************************************)
(* Nobody is stuck but a program whose gplt has died under it.  What has   *)
(* been asked and not answered is on the queue or in the hands of gplt.    *)
(***************************************************************************)
THEOREM NobodyStuck == Spec => []WaitsForTheDead
<1>1. PlotInv => WaitsForTheDead
  <2> SUFFICES ASSUME TypeOK, Core, pc # "none", ~AppGoes, \A g \in Run : ~GpltGoes(g),
                      NEW g \in Living
               PROVE  FALSE
    BY DEF PlotInv, WaitsForTheDead, Living
  <2>1. pc \in {"ack", "wait"} /\ toApp[mbchan] = <<>>
    BY DEF AppGoes
  <2>2. Replies = <<>> /\ mq # 0
    BY <2>1 DEF Core, QueueOK, Replies
  <2>3. g \in Run /\ gplt[g].pc \in {"read", "more"} /\ Asked = <<>>
    BY OnlyReaders DEF Living
  <2>4. gplt[g].pc \in Serving /\ gplt[g].pc # "work"
    BY <2>3 DEF Serving, Loop
  <2>5. \A x : <<x>> # <<>> /\ \A y : <<x, y>> # <<>>
    OBVIOUS
  <2>6. pc = "ack" => FALSE
    BY <2>2, <2>3, <2>5 DEF Core, TalkOK, AckOK
  <2>7. pc = "wait" => FALSE
    BY <2>2, <2>3, <2>4, <2>5 DEF Core, TalkOK, WaitOK, Works
  <2> QED BY <2>1, <2>6, <2>7
<1> QED BY <1>1, SpecPlot, PTL

\* The semaphore is that of a gplt that lives or is about to; a queue that is
\* not that of the program that ended is none.
RestOK ==
    /\ faults = 0 /\ sem # 0 => gplt[sem].pc # "dead" \/ pc = "fork"
    /\ pc = "none" /\ taken # <<0, "none">> => mq = 0 \/ mq = mbchan
RestInv == ~upset => RestOK

\* Every step keeps RestInv.
LEMMA RestStep == PlotInv /\ PlotInv' /\ RestInv /\ [Next]_vars => RestInv'
<1> SUFFICES ASSUME PlotInv, PlotInv', RestInv, [Next]_vars, ~upset' PROVE RestOK'
  BY DEF RestInv
<1>1. CASE UNCHANGED vars
  BY <1>1 DEF vars, RestInv, RestOK
<1>2. ASSUME Next PROVE RestOK'
  <2>1. TypeOK /\ Core /\ RestOK /\ ~upset /\ TypeOK' /\ Core'
    BY <1>2 DEF PlotInv, RestInv, Next
  <2>2. faults \in Nat /\ sem \in Id /\ 0 \notin Run
    BY <2>1 DEF TypeOK, Run
  <2>3. ASSUME NEW p \in Prog, Begin(p) PROVE RestOK'
    BY <2>1, <2>3 DEF Begin, ipc, Goto, RestOK
  <2>4. CASE Kill
    <3>1. faults' # 0
      BY <2>2, <2>4 DEF Kill
    <3>2. taken # <<0, "none">> => mq = 0 \/ mq = mbchan
      BY <2>1, <2>4 DEF Kill, Core, QueueOK, OutsideOK, Before
    <3> QED BY <2>4, <3>1, <3>2 DEF Kill, ipc, RestOK
  <2>5. ASSUME AppStep PROVE RestOK'
    <3>1. faults' = faults
      BY <2>5 DEF AppStep, Queue, Lock, Test, Poll, GiveUp, Install, NothingToEnd, Fork, Ask,
         AskMore, Receive, End
    <3>2. ASSUME faults = 0, sem' # 0 PROVE gplt'[sem'].pc # "dead" \/ pc' = "fork"
      <4>1. CASE GiveUp
        <5>1. gplt' = gplt /\ pc = "poll" /\ sem' \in {sem, 0}
          BY <4>1 DEF GiveUp, FreeSem
        <5> QED BY <2>1, <3>2, <5>1 DEF RestOK
      <4>2. CASE Install
        BY <4>2 DEF Install, Goto
      <4>3. CASE Fork
        <5>1. sem' = run /\ run \in Run
          BY <2>1, <4>3 DEF Fork, ipc, Core, SemOK, TypeOK, Id
        <5>2. gplt'[run].pc = "born"
          BY <2>1, <4>3, <5>1 DEF Fork, Dead, TypeOK
        <5> QED BY <5>1, <5>2
      <4>4. ASSUME sem' = sem, gplt' = gplt, pc # "fork" PROVE gplt'[sem'].pc # "dead"
        BY <2>1, <3>2, <4>4 DEF RestOK
      <4>5. ASSUME NEW n \in 1 .. MaxPack, Ask(n) PROVE gplt'[sem'].pc # "dead"
        BY <4>4, <4>5 DEF Ask
      <4>6. CASE Queue \/ Lock \/ Test \/ Poll
        BY <4>4, <4>6 DEF Queue, Lock, Test, Poll, ipc
      <4>7. CASE NothingToEnd \/ AskMore \/ Receive \/ End
        BY <4>4, <4>7 DEF NothingToEnd, AskMore, Receive, End
      <4> QED BY <2>5, <4>1, <4>2, <4>3, <4>5, <4>6, <4>7 DEF AppStep
    <3>3. ASSUME pc' = "none" PROVE taken' = <<0, "none">> \/ mq' = 0 \/ mq' = mbchan'
      <4>1. Test \/ NothingToEnd \/ End
        <5>1. ~Queue /\ ~Lock /\ ~Poll /\ ~GiveUp /\ ~Install /\ ~Fork
          BY <3>3 DEF Queue, Lock, Poll, GiveUp, Install, Fork, Goto
        <5>2. ~AskMore /\ ~Receive /\ ~\E n \in 1 .. MaxPack : Ask(n)
          BY <3>3 DEF AskMore, Receive, Ask, Goto
        <5> QED BY <2>5, <5>1, <5>2 DEF AppStep
      <4>2. /\ pc \in {"test", "absent", "next"} /\ mbchan' = mbchan /\ mbchan = mq
            /\ mq' = mq \/ Remove(mbchan)
        BY <2>1, <4>1 DEF Test, NothingToEnd, End, Core, QueueOK
      <4>3. mq' = 0 \/ mq' = mq
        BY <4>2 DEF Remove
      <4> QED BY <4>2, <4>3
    <3> QED BY <3>1, <3>2, <3>3 DEF RestOK
  <2>6. ASSUME NEW g \in Run, GpltStep(g) PROVE RestOK'
    <3>1. app' = app /\ mq' = mq /\ faults' = faults
      BY <2>1, <2>6, GpltFrame
    <3>2. \A h \in Run : h # g => gplt'[h] = gplt[h]
      BY <2>1, <2>6, GpltFrame
    <3>3. ASSUME faults = 0, sem' # 0 PROVE gplt'[sem'].pc # "dead" \/ pc = "fork"
      <4>1. CASE Leave(g)
        <5>1. sem' = sem /\ sem # g
          <6>1. gplt[g].pc = "end" /\ gplt[g].sem = g
            BY <2>1, <4>1 DEF Leave, Core, GpltOK
          <6> QED BY <3>3, <4>1, <6>1 DEF Leave, FreeSem
        <5>2. sem \in Run
          BY <2>2, <3>3, <5>1 DEF Id
        <5> QED BY <2>1, <3>2, <3>3, <5>1, <5>2 DEF RestOK
      <4>2. CASE Stop(g)
        <5>1. gplt[g].pc = "grab" /\ (sem # gplt[g].sem \/ sem = 0)
          BY <4>2 DEF Stop
        <5>2. sem = g /\ gplt[g].sem = g
          BY <2>1, <5>1 DEF Core, GpltOK, Starting
        <5> QED BY <2>2, <5>1, <5>2
      <4>3. ASSUME ~Leave(g), ~Stop(g) PROVE sem' = sem /\ gplt'[g].pc # "dead"
        <5>1. gplt \in [Run -> Process]
          BY <2>1 DEF TypeOK, Process
        <5>2. sem' = sem
          BY <2>1, <2>6, <4>3, GpltFrame
        <5>3. CASE Attach(g) \/ Lookup(g) \/ Grab(g)
          BY <5>1, <5>2, <5>3 DEF Attach, Lookup, Grab, Process
        <5>4. CASE ReadFirst(g)
          BY <5>1, <5>2, <5>4 DEF ReadFirst, Process
        <5>5. CASE ReadMore(g) \/ Serve(g)
          BY <5>1, <5>2, <5>5 DEF ReadMore, Serve, Process
        <5> QED BY <2>6, <4>3, <5>2, <5>3, <5>4, <5>5 DEF GpltStep
      <4>4. CASE ~Leave(g) /\ ~Stop(g)
        <5>1. sem' = sem /\ gplt'[g].pc # "dead" /\ sem \in Run
          BY <2>2, <3>3, <4>3, <4>4 DEF Id
        <5>2. gplt[sem].pc # "dead" \/ pc = "fork"
          BY <2>1, <3>3, <5>1 DEF RestOK
        <5>3. CASE sem = g
          BY <5>1, <5>3
        <5>4. CASE sem # g
          BY <3>2, <5>1, <5>2, <5>4
        <5> QED BY <5>3, <5>4
      <4> QED BY <4>1, <4>2, <4>4
    <3> QED BY <2>1, <3>1, <3>3 DEF RestOK, app
  <2>7. ASSUME NEW g \in Run, Die(g) PROVE RestOK'
    BY <2>1, <2>2, <2>7 DEF Die, ipc, app, RestOK
  <2> QED BY <1>2, <2>3, <2>4, <2>5, <2>6, <2>7 DEF Next
<1> QED BY <1>1, <1>2

(***************************************************************************)
(* GENDP (1) and GPEND leave nothing behind, whatever died on the way: the *)
(* queue goes first, by the program, the semaphore and gplt after it, by   *)
(* gplt (QuitLeavesNothing says that it comes to rest).                    *)
(***************************************************************************)
THEOREM LeavesNothing == Spec => []EndsClean
<1>1. Init => RestInv
  BY DEF Init, RestInv, RestOK
<1>2. Spec => []RestInv
  BY <1>1, RestStep, SpecPlot, PTL DEF Spec
<1>3. PlotInv /\ RestInv => EndsClean
  <2> SUFFICES ASSUME TypeOK, Core, RestOK, pc = "none", taken = Mine("quit"), mq # mbchan,
                      \A g \in Run : ~GpltGoes(g)
               PROVE  mq = 0 /\ Living = {} /\ (sem = 0 \/ faults > 0)
    BY DEF PlotInv, RestInv, EndsClean
  <2>1. taken # <<0, "none">>
    BY DEF Mine
  <2>2. mq = 0
    BY <2>1 DEF RestOK
  <2>3. Living = {}
    <3> SUFFICES ASSUME NEW g \in Living PROVE FALSE
      OBVIOUS
    <3>1. g \in Run
      BY DEF Living
    <3> QED BY <2>2, <3>1, OnlyReaders
  <2>4. ASSUME faults = 0, sem # 0 PROVE FALSE
    <3>1. sem \in Run /\ gplt[sem].pc # "dead"
      BY <2>4 DEF RestOK, TypeOK, Id
    <3> QED BY <2>3, <3>1 DEF Living
  <2>5. faults \in Nat
    BY DEF TypeOK
  <2> QED BY <2>2, <2>3, <2>4, <2>5
<1> QED BY <1>2, <1>3, SpecPlot, PTL

=============================================================================
