---------------------------- MODULE ThreadQueue ----------------------------
(***************************************************************************)
(* The message queues and threads everything else runs on                  *)
(* (base/messagequeue.cc, base/thread.cc): Post, PostDelayed, Send, Get,   *)
(* ReceiveSends, Clear and Quit of several talk_base::Threads that call    *)
(* each other, with the wake-up signal of their socket servers             *)
(* (base/physicalsocketserver.cc).                                         *)
(*                                                                         *)
(* A thread is a stack of frames, one per call it is inside of, because    *)
(* the code is reentrant: a thread that waits for its own Send runs the    *)
(* messages sent to it meanwhile, whose handlers may Send again.  One step *)
(* is what happens under one lock, or one read of an unlocked flag.        *)
(***************************************************************************)
EXTENDS Integers, Sequences, FiniteSets, Lists

CONSTANTS
    Threads, Handlers,
    Home,        \* handler -> the thread its messages are addressed to
    DisposeTo,   \* the threads clients Dispose objects on
    Delays,      \* delays a client passes to PostDelayed
    TimeMod,     \* the number of values of the uint32 clock
    TimeStart,   \* what Time() returns at first
    MaxTime,     \* bound: clock ticks while no thread waits for the clock
    MaxCall,     \* bound: calls of Post, PostDelayed, Send, Dispose
    MaxIo,       \* bound: socket events
    MaxQuit,     \* bound: calls of Quit
    MaxClear     \* bound: calls of Clear and handler destructions

ASSUME HomeAssumption ==
    Home \in [Handlers -> Threads] /\ DisposeTo \subseteq Threads
ASSUME TimeAssumption ==
    /\ TimeMod \in Nat /\ TimeMod > 1 /\ TimeMod % 2 = 0
    /\ TimeStart \in 0 .. TimeMod - 1
    /\ Delays \subseteq 0 .. (TimeMod \div 2) - 1
ASSUME BoundAssumption ==
    /\ MaxTime \in Nat /\ MaxCall \in Nat /\ MaxIo \in Nat
    /\ MaxQuit \in Nat /\ MaxClear \in Nat

VARIABLES
    stack,      \* thread -> the calls it is inside of, innermost last
    msgq,       \* thread -> msgq_
    dmsgq,      \* thread -> dmsgq_, as a set
    dnum,       \* thread -> dmsgq_next_num_
    sendlist,   \* thread -> sendlist_
    fStop,      \* thread -> fStop_
    signaled,   \* thread -> its socket server's EventDispatcher::fSignaled_
    ready,      \* the addresses of the "ready" flags that are true
    dead,       \* handlers that have been destroyed
    now,        \* ticks since the start
    left        \* what is left of the bounds

vars == <<stack, msgq, dmsgq, dnum, sendlist, fStop, signaled, ready, dead,
          now, left>>
queues == <<msgq, dmsgq, dnum, sendlist>>

None == "none"       \* the handler of a MQID_DISPOSE message
ASSUME NoneAssumption == None \notin Handlers
Forever == -1
Target == Handlers \cup {None}

\* "ready" is a variable of Send's frame: its address is a place on a stack.
Address == Threads \X Nat
SendMessage == [thread : Threads, ready : Address, h : Handlers]
DelayedMessage == [trigger : 0 .. TimeMod - 1, num : Nat, h : Handlers,
                   due : Nat]              \* due: the trigger, not wrapped

\* A frame: the call, where it is, and its local variables.
Frame(op, pc, to, h) ==
    [op |-> op, pc |-> pc, to |-> to, h |-> h, ready |-> <<to, 0>>,
     waited |-> FALSE, cur |-> 0, until |-> Forever, delay |-> Forever,
     trigger |-> 0]
Ops == {"Get", "ReceiveSends", "Body", "Post", "PostDelayed", "Send", "Quit"}
Pcs == {"sends", "scan", "again", "stop", "wait", "done", "loop", "run",
        "push", "wake", "test"}
Frames == [op : Ops, pc : Pcs, to : Threads, h : Target, ready : Address,
           waited : BOOLEAN, cur : 0 .. TimeMod - 1, until : Nat \cup {Forever},
           delay : Nat \cup {Forever}, trigger : 0 .. TimeMod - 1]

Last(s) == s[Len(s)]
Pop(s) == SubSeq(s, 1, Len(s) - 1)
Top(t) == Last(stack[t])
At(t, op, pc) == Top(t).op = op /\ Top(t).pc = pc
\* The stack of t after its innermost call has moved on to frame f.
Moved(t, f) == [stack EXCEPT ![t] = Append(Pop(@), f)]
\* ... and has made the call g.
Called(t, f, g) == [stack EXCEPT ![t] = Append(Append(Pop(@), f), g)]
Returned(t) == [stack EXCEPT ![t] = Pop(@)]
Step(t, pc) == [Top(t) EXCEPT !.pc = pc]
\* The client makes one more call of a bounded kind.
Spend(what) == left[what] > 0 /\ left' = [left EXCEPT ![what] = @ - 1]

-----------------------------------------------------------------------------
(* Time (base/timeutils.cc): a uint32 of milliseconds that wraps           *)

Half == TimeMod \div 2
Time == (TimeStart + now) % TimeMod
\* int32 of a difference of two uint32.
Signed(d) == LET u == d % TimeMod IN IF u < Half THEN u ELSE u - TimeMod
TimeDiff(later, earlier) == Signed(later - earlier)
\* Wrong variant of TimeIsLater: the clock is taken never to wrap.
TimeIsLaterRaw(earlier, later) == later > earlier
TimeIsLater(earlier, later) == Signed(later - earlier) > 0
\* Wrong variant of TimeAfter: the sum keeps its carry.
TimeAfterWide(d) == Time + d
TimeAfter(d) == (Time + d) % TimeMod

Tick ==
    /\ \/ now < MaxTime
       \/ \E t \in Threads : At(t, "Get", "wait") /\ now < Top(t).until
    /\ now' = now + 1
    /\ UNCHANGED <<stack, queues, fStop, signaled, ready, dead, left>>

-----------------------------------------------------------------------------
(* PhysicalSocketServer::WakeUp and Wait                                   *)

WakeUp(t) == signaled' = [signaled EXCEPT ![t] = TRUE]

\* Wait returns: the signal was raised (and is reset), or the time is over.
WaitReturns(t, until) ==
    /\ signaled[t] \/ (until # Forever /\ now >= until)
    /\ signaled' = [signaled EXCEPT ![t] = FALSE]

-----------------------------------------------------------------------------
(* MessageQueue::Get, in the loop of Thread::ProcessMessages(kForever)     *)

\* DelayedMessage::operator<: what the priority queue puts on top.
Before(a, b) ==
    a.trigger < b.trigger \/ (a.trigger = b.trigger /\ a.num < b.num)
TopOf(ds) == CHOOSE d \in ds : \A e \in ds \ {d} : Before(d, e)

\* The delayed messages that are moved to msgq_, in order: the queue is
\* emptied from the top until its top is later than msCurrent.
Due(ds, cur) ==
    {d \in ds : \A e \in ds : Before(e, d) \/ e = d =>
                                 ~TimeIsLater(cur, e.trigger)}
\* A set of delayed messages as the sequence in which it is popped.
InOrder(ds) ==
    [i \in 1 .. Cardinality(ds) |->
        (CHOOSE d \in ds : Cardinality({e \in ds : Before(e, d)}) = i - 1).h]

\* msCurrent = Time(), and the sent messages first.
GetStart(t) ==
    /\ At(t, "Get", "sends")
    /\ stack' = Called(t, [Top(t) EXCEPT !.pc = "scan", !.cur = Time],
                       Frame("ReceiveSends", "loop", t, None))
    /\ UNCHANGED <<queues, fStop, signaled, ready, dead, now, left>>

\* Under crit_: on the first pass move the due messages over and take the
\* first message.  A dispose message deletes its object and is skipped.
GetScan(t) ==
    /\ Top(t).op = "Get" /\ Top(t).pc \in {"scan", "again"}
    /\ LET f == Top(t)
           due == IF f.pc = "scan" THEN Due(dmsgq[t], f.cur) ELSE {}
           rest == dmsgq[t] \ due
           q == msgq[t] \o InOrder(due)
           wait == IF f.pc = "again" THEN f.delay
                   ELSE IF rest = {} THEN Forever
                   ELSE TimeDiff(TopOf(rest).trigger, f.cur)
           g == [f EXCEPT !.delay = wait, !.cur = 0]
       IN /\ dmsgq' = [dmsgq EXCEPT ![t] = rest]
          /\ msgq' = [msgq EXCEPT ![t] = IF q = <<>> THEN q ELSE Tail(q)]
          /\ stack' =
                IF q = <<>> THEN Moved(t, [g EXCEPT !.pc = "stop"])
                ELSE IF Head(q) = None THEN Moved(t, [g EXCEPT !.pc = "again"])
                ELSE Called(t, [f EXCEPT !.pc = "sends", !.cur = 0, !.delay = Forever],
                            Frame("Body", "run", t, Head(q)))
    /\ UNCHANGED <<dnum, sendlist, fStop, signaled, ready, dead, now, left>>

\* fStop_ is read without the lock; Wait(cmsDelayNext) starts here.
GetStop(t) ==
    /\ At(t, "Get", "stop")
    /\ LET f == Top(t)
       IN stack' = Moved(t, IF fStop[t] THEN [f EXCEPT !.pc = "done"]
                            ELSE [f EXCEPT !.pc = "wait", !.delay = Forever,
                                    !.until = IF f.delay = Forever THEN Forever
                                              ELSE now + f.delay])
    /\ UNCHANGED <<queues, fStop, signaled, ready, dead, now, left>>

GetWait(t) ==
    /\ At(t, "Get", "wait")
    /\ WaitReturns(t, Top(t).until)
    /\ stack' = Moved(t, [Top(t) EXCEPT !.pc = "sends", !.until = Forever])
    /\ UNCHANGED <<queues, fStop, ready, dead, now, left>>

\* Wait(.., process_io = true) runs a socket's callback.
IoEvent(t) ==
    /\ At(t, "Get", "wait") /\ Spend("io")
    /\ stack' = [stack EXCEPT ![t] = Append(@, Frame("Body", "run", t, None))]
    /\ UNCHANGED <<queues, fStop, signaled, ready, dead, now>>

Return(t) ==
    /\ At(t, "Body", "run")
    /\ stack' = Returned(t)
    /\ UNCHANGED <<queues, fStop, signaled, ready, dead, now, left>>

-----------------------------------------------------------------------------
(* Thread::ReceiveSends                                                    *)

\* Wrong variant of SendDone: the flag is raised, the sender not woken.
SendDoneSilent(t) ==
    /\ ready' = ready \cup {Top(t).ready}
    /\ UNCHANGED signaled
\* After OnMessage: *smsg.ready = true, and the sender is woken.
SendDone(t) ==
    /\ ready' = ready \cup {Top(t).ready}
    /\ WakeUp(Top(t).to)

\* One turn of the loop, all of it under crit_ but the call of OnMessage.
ReceiveSends(t) ==
    /\ Top(t).op = "ReceiveSends" /\ Top(t).pc \in {"loop", "done"}
    /\ IF Top(t).pc = "done" THEN SendDone(t) ELSE UNCHANGED <<ready, signaled>>
    /\ IF sendlist[t] = <<>>
       THEN stack' = Returned(t) /\ UNCHANGED sendlist
       ELSE LET smsg == Head(sendlist[t])
            IN /\ sendlist' = [sendlist EXCEPT ![t] = Tail(@)]
               /\ stack' = Called(t, [Top(t) EXCEPT !.pc = "done",
                                        !.to = smsg.thread, !.ready = smsg.ready],
                                  Frame("Body", "run", t, smsg.h))
    /\ UNCHANGED <<msgq, dmsgq, dnum, fStop, dead, now, left>>

-----------------------------------------------------------------------------
(* What a handler or a callback may do                                     *)

\* The client does not use a handler it has destroyed.
Live(h) == h \notin dead

\* Post and Dispose, up to the unlocked test of fStop_.
CallPost(t, h, to) ==
    /\ At(t, "Body", "run") /\ Spend("call")
    /\ h # None => Live(h) /\ to = Home[h]
    /\ ~fStop[to]
    /\ stack' = [stack EXCEPT ![t] = Append(@, Frame("Post", "push", to, h))]
    /\ UNCHANGED <<queues, fStop, signaled, ready, dead, now>>

Post(t) ==
    /\ At(t, "Post", "push")
    /\ msgq' = [msgq EXCEPT ![Top(t).to] = Append(@, Top(t).h)]
    /\ WakeUp(Top(t).to)
    /\ stack' = Returned(t)
    /\ UNCHANGED <<dmsgq, dnum, sendlist, fStop, ready, dead, now, left>>

\* PostDelayed computes the trigger time before DoDelayPost tests fStop_.
CallPostDelayed(t, h, d) ==
    /\ At(t, "Body", "run") /\ Spend("call")
    /\ Live(h) /\ ~fStop[Home[h]]
    /\ stack' = [stack EXCEPT ![t] =
                    Append(@, [Frame("PostDelayed", "push", Home[h], h) EXCEPT
                                 !.trigger = TimeAfter(d),
                                 !.until = now + d])]
    /\ UNCHANGED <<queues, fStop, signaled, ready, dead, now>>

DoDelayPost(t) ==
    /\ At(t, "PostDelayed", "push")
    /\ LET f == Top(t)
       IN /\ dmsgq' = [dmsgq EXCEPT ![f.to] = @ \cup
                          {[trigger |-> f.trigger, num |-> dnum[f.to], h |-> f.h,
                            due |-> f.until]}]
          /\ dnum' = [dnum EXCEPT ![f.to] = @ + 1]
          /\ WakeUp(f.to)
    /\ stack' = Returned(t)
    /\ UNCHANGED <<msgq, sendlist, fStop, ready, dead, now, left>>

\* Quit sets the flag, then wakes the thread.
CallQuit(t, to) ==
    /\ At(t, "Body", "run") /\ Spend("quit")
    /\ fStop' = [fStop EXCEPT ![to] = TRUE]
    /\ stack' = [stack EXCEPT ![t] = Append(@, Frame("Quit", "wake", to, None))]
    /\ UNCHANGED <<queues, signaled, ready, dead, now>>

Quit(t) ==
    /\ At(t, "Quit", "wake")
    /\ WakeUp(Top(t).to)
    /\ stack' = Returned(t)
    /\ UNCHANGED <<queues, fStop, ready, dead, now, left>>

-----------------------------------------------------------------------------
(* Thread::Send                                                            *)

\* A Send to the current thread calls the handler.
CallSend(t, h) ==
    /\ At(t, "Body", "run") /\ Spend("call")
    /\ Live(h) /\ ~fStop[Home[h]]
    /\ stack' = [stack EXCEPT ![t] =
                    Append(@, IF Home[h] = t THEN Frame("Body", "run", t, h)
                              ELSE Frame("Send", "push", Home[h], h))]
    /\ UNCHANGED <<queues, fStop, signaled, ready, dead, now>>

SendPush(t) ==
    /\ At(t, "Send", "push")
    /\ LET f == Top(t)
           smsg == [thread |-> t, ready |-> <<t, Len(stack[t])>>, h |-> f.h]
       IN sendlist' = [sendlist EXCEPT ![f.to] = Append(@, smsg)]
    /\ stack' = Moved(t, Step(t, "wake"))
    /\ UNCHANGED <<msgq, dmsgq, dnum, fStop, signaled, ready, dead, now, left>>

SendWake(t) ==
    /\ At(t, "Send", "wake")
    /\ WakeUp(Top(t).to)
    /\ stack' = Moved(t, Step(t, "test"))
    /\ UNCHANGED <<queues, fStop, ready, dead, now, left>>

\* Wrong variant of SendLeaves: the wake-ups consumed while waiting are lost.
SendLeavesQuietly(t) == UNCHANGED signaled
\* "Our Wait loop above may have consumed some WakeUp events".
SendLeaves(t) == IF Top(t).waited THEN WakeUp(t) ELSE UNCHANGED signaled

\* Wrong variant of Released: if (!ready) in place of while (!ready).
ReleasedOrWoken(t) == <<t, Len(stack[t])>> \in ready \/ Top(t).waited
\* The flag of the Send that t is inside of has been set.
Released(t) == <<t, Len(stack[t])>> \in ready

\* while (!ready): under the target's crit_, where the flag is set.
SendTest(t) ==
    /\ At(t, "Send", "test")
    /\ IF Released(t)
       THEN /\ ready' = ready \ {<<t, Len(stack[t])>>}
            /\ SendLeaves(t)
            /\ stack' = Returned(t)
       ELSE /\ stack' = Called(t, Step(t, "wait"),
                               Frame("ReceiveSends", "loop", t, None))
            /\ UNCHANGED <<ready, signaled>>
    /\ UNCHANGED <<queues, fStop, dead, now, left>>

\* Wait(kForever, false): no socket events.
SendWait(t) ==
    /\ At(t, "Send", "wait")
    /\ WaitReturns(t, Forever)
    /\ stack' = Moved(t, [Top(t) EXCEPT !.pc = "test", !.waited = TRUE])
    /\ UNCHANGED <<queues, fStop, ready, dead, now, left>>

-----------------------------------------------------------------------------
(* Thread::Clear and MessageHandler::~MessageHandler                       *)

\* Remove h's messages from the queue of thread q; the senders of the sent
\* ones are released and woken.
Clear(q, h) ==
    LET cleared == {sendlist[q][i] : i \in
                       {i \in 1 .. Len(sendlist[q]) : sendlist[q][i].h = h}}
    IN /\ sendlist' = [sendlist EXCEPT ![q] = Without(@, cleared)]
       /\ ready' = ready \cup {x.ready : x \in cleared}
       /\ signaled' = [t \in Threads |->
                          signaled[t] \/ \E x \in cleared : x.thread = t]
       /\ msgq' = [msgq EXCEPT ![q] = Without(@, {h})]
       /\ dmsgq' = [dmsgq EXCEPT ![q] = {x \in @ : x.h # h}]

CallClear(t, h) ==
    /\ At(t, "Body", "run") /\ Spend("clear") /\ Live(h)
    /\ Clear(Home[h], h)
    /\ UNCHANGED <<stack, dnum, fStop, dead, now>>

\* MessageQueueManager::Clear goes over every queue; h has messages only in
\* its home's.  A handler is destroyed by its own thread, not while it runs
\* (unless it is the innermost one: delete this), and not while another
\* thread is about to queue a message to it.
DestroyHandler(t, h) ==
    /\ At(t, "Body", "run") /\ Spend("clear") /\ Live(h) /\ Home[h] = t
    /\ \A i \in 1 .. Len(stack[t]) - 1 : stack[t][i].op = "Body" => stack[t][i].h # h
    /\ \A u \in Threads : \A i \in 1 .. Len(stack[u]) :
          stack[u][i].pc = "push" => stack[u][i].h # h
    /\ Clear(t, h)
    /\ dead' = dead \cup {h}
    /\ UNCHANGED <<stack, dnum, fStop, now>>

-----------------------------------------------------------------------------
Init ==
    /\ stack = [t \in Threads |-> <<Frame("Get", "sends", t, None)>>]
    /\ msgq = [t \in Threads |-> <<>>]
    /\ dmsgq = [t \in Threads |-> {}]
    /\ dnum = [t \in Threads |-> 0]
    /\ sendlist = [t \in Threads |-> <<>>]
    /\ fStop = [t \in Threads |-> FALSE]
    /\ signaled = [t \in Threads |-> FALSE]
    /\ ready = {}
    /\ dead = {}
    /\ now = 0
    /\ left = [call |-> MaxCall, io |-> MaxIo, quit |-> MaxQuit,
               clear |-> MaxClear]

\* A step inside the queue's own code.
Inside(t) ==
    \/ GetStart(t) \/ GetScan(t) \/ GetStop(t) \/ GetWait(t)
    \/ ReceiveSends(t)
    \/ Post(t) \/ DoDelayPost(t) \/ Quit(t)
    \/ SendPush(t) \/ SendWake(t) \/ SendTest(t) \/ SendWait(t)
    \/ Return(t)

\* What a client decides to do.
Client(t) ==
    \/ IoEvent(t)
    \/ \E h \in Handlers :
          \/ CallPost(t, h, Home[h])
          \/ \E d \in Delays : CallPostDelayed(t, h, d)
          \/ CallSend(t, h)
          \/ CallClear(t, h)
          \/ DestroyHandler(t, h)
    \/ \E to \in DisposeTo : CallPost(t, None, to)
    \/ \E to \in Threads : CallQuit(t, to)

Next == Tick \/ \E t \in Threads : Inside(t) \/ Client(t)
Spec == Init /\ [][Next]_vars

\* The operating system runs every thread, handlers return, time passes.
FairSpec == Spec /\ WF_vars(Tick) /\ \A t \in Threads : WF_vars(Inside(t))

-----------------------------------------------------------------------------
(* Properties                                                              *)

\* The types of the state: every frame, queued message and flag address.
TypeOK ==
    /\ stack \in [Threads -> Seq(Frames)] /\ \A t \in Threads : stack[t] # <<>>
    /\ msgq \in [Threads -> Seq(Target)]
    /\ dmsgq \in [Threads -> SUBSET DelayedMessage]
    /\ dnum \in [Threads -> Nat]
    /\ sendlist \in [Threads -> Seq(SendMessage)]
    /\ fStop \in [Threads -> BOOLEAN] /\ signaled \in [Threads -> BOOLEAN]
    /\ ready \subseteq Address /\ dead \subseteq Handlers /\ now \in Nat
    /\ left \in [{"call", "io", "quit", "clear"} -> Nat]

Waiting(t) == Top(t).pc = "wait"
AboutToWake(op, t) == \E u \in Threads : At(u, op, "wake") /\ Top(u).to = t

\* No wake-up is lost: a thread that sleeps in its socket server with no signal
\* pending has no message sent to it (unless the sender has yet to call
\* WakeUp), the Send it is in is not finished, and, where it sleeps in Get, it
\* has nothing posted, no delayed message without a time-out, and was not told
\* to quit (unless Quit has yet to call WakeUp).  Send's Wait and Get's share
\* one signal, so this rests on Send raising it again (thread.cc:438).
NoLostWakeUp ==
    \A t \in Threads : Waiting(t) /\ ~signaled[t] =>
        /\ sendlist[t] # <<>> => AboutToWake("Send", t)
        /\ Top(t).op = "Send" => <<t, Len(stack[t])>> \notin ready
        /\ Top(t).op = "Get" =>
              /\ msgq[t] = <<>>
              /\ dmsgq[t] # {} => Top(t).until # Forever
              /\ fStop[t] => AboutToWake("Quit", t)

\* The flags that will be written: by a queued sent message or by one whose
\* handler runs.
Pledged ==
    UNION {{sendlist[t][i].ready : i \in 1 .. Len(sendlist[t])} \cup
           {stack[t][i].ready : i \in {i \in 1 .. Len(stack[t]) :
               stack[t][i].op = "ReceiveSends" /\ stack[t][i].pc = "done"}} :
             t \in Threads}

ReadyIsLive ==
    \A a \in Pledged :
        /\ a \notin ready /\ a[2] <= Len(stack[a[1]])
        /\ LET f == stack[a[1]][a[2]]
           IN f.op = "Send" /\ f.pc \in {"wake", "test", "wait"}

NoCallAfterDestroy ==
    \A t \in Threads :
        /\ \A i \in 1 .. Len(msgq[t]) : msgq[t][i] \notin dead
        /\ \A d \in dmsgq[t] : d.h \notin dead
        /\ \A i \in 1 .. Len(sendlist[t]) : sendlist[t][i].h \notin dead

\* Nothing that is used later points to what is gone.  "*smsg.ready = true" writes
\* into the stack frame of the sender: whoever still holds the address, that
\* frame is a Send that waits, not yet released (ReadyIsLive).  And a destroyed
\* handler is never called again: nothing queued refers to it.
NothingDangles == ReadyIsLive /\ NoCallAfterDestroy

\* The delayed messages GetScan takes out in a step (Clear is another way out).
Fired(t) == IF left' = left THEN dmsgq[t] \ dmsgq'[t] ELSE {}

\* No timer fires before its time, also when the clock wraps in between.
NotEarly == [][\A t \in Threads : \A d \in Fired(t) : d.due <= now]_vars

InSend(t) == \E i \in 1 .. Len(stack[t]) : stack[t][i].op = "Send"

\* Every Send returns, however the threads' Sends cross and nest: a thread in
\* Send serves the messages sent to it.  (No thread quits.)
SendsReturn == \A t \in Threads : InSend(t) ~> ~InSend(t)

\* Every message is taken from its queue: a posted one also when the wake-up for
\* it came during a Send, a delayed one also when the clock wraps before it is
\* due.  (No thread quits.)
PostsDispatched ==
    \A t \in Threads : /\ msgq[t] # <<>> ~> msgq[t] = <<>>
                       /\ dmsgq[t] # {} ~> dmsgq[t] = {}
=============================================================================
