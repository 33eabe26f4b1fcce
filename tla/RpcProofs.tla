------------------------------ MODULE RpcProofs ------------------------------
(* The client handles of remote calls, for any number of threads, handles,    *)
(* calls, faults and any sizes of the cache: they stay exclusive and are      *)
(* never lost.                                                                *)
EXTENDS Rpc, FiniteSetTheorems, SequenceTheorems, TLAPS

(* The frames of calls: at the bottom the call to the view server, on top of  *)
(* it, while it probes or rebinds, a call to the albd.                        *)
Carrying == {"insert", "xid", "wrap", "wrapped", "call", "again", "wait", "free"}
Binding == {"probe", "rebind"}
Pcs == Carrying \cup Binding \cup {"get", "end"}
FrameType == [op : {"view", "albd", "albd70"}, pc : Pcs, call : 0 .. MaxCalls,
              client : Handles \cup {Null}, xid : Nat, bt : Nat, rebind : BOOLEAN,
              ruid : BOOLEAN, err : BOOLEAN]
IsView(f) ==
    /\ f.op = "view" /\ f.call \in 1 .. MaxCalls /\ f.pc # "end"
    /\ f.client # Null <=> f.pc \in Carrying \cup {"rebind"}
IsAlbd(f) ==
    /\ f.op # "view" /\ f.pc \notin Binding /\ ~f.rebind
    /\ f.client # Null <=> f.pc \in Carrying
StackOf(t) ==
    \/ stack[t] = <<>>
    \/ \E f \in FrameType : stack[t] = <<f>> /\ IsView(f)
    \/ \E f, g \in FrameType : /\ stack[t] = <<g, f>> /\ IsView(f) /\ IsAlbd(g)
                               /\ f.pc \in Binding

SlotType == [client : Handles \cup {Null}, inuse : BOOLEAN, proto : {"view", "albd"}]
Shape ==
    /\ mvfs_xid \in Nat /\ mvfs_boottime \in Nat
    /\ cache \in Seq(SlotType) /\ live \subseteq Handles /\ calls \in 0 .. MaxCalls
    /\ DOMAIN stack = Threads /\ \A t \in Threads : StackOf(t)

(* The handle of the call to the view server, and of that to the albd.        *)
Bottom(t) == stack[t][Len(stack[t])]
Of(t) == IF stack[t] = <<>> THEN Null ELSE Bottom(t).client
Aux(t) == IF stack[t] = <<>> \/ Tail(stack[t]) = <<>> THEN Null ELSE Head(stack[t]).client
Has(t, h) == Of(t) = h \/ Aux(t) = h

Slots == DOMAIN cache
InCache(h) == \E i \in Slots : cache[i].client = h
Held(h) == \E t \in Threads : Has(t, h)

HeldLive == \A t \in Threads : \A h \in Handles : Has(t, h) => h \in live
HeldOnce == \A t, u \in Threads : \A h \in Handles : Has(t, h) /\ Has(u, h) => t = u
Apart(t) == Of(t) = Aux(t) => Of(t) = Null
SlotTrue(i) == \A h \in Handles : cache[i].client = h => h \in live /\ (cache[i].inuse <=> Held(h))
SlotOnce(i, j) == \A h \in Handles : cache[i].client = h /\ cache[j].client = h => i = j
NoneLost == \A h \in live : InCache(h) \/ Held(h)
NewUncached(t) == \A h \in Handles : At(t, "insert") /\ Top(t).client = h => ~InCache(h)
OwnInv ==
    /\ HeldLive /\ HeldOnce /\ NoneLost
    /\ \A t \in Threads : Apart(t) /\ NewUncached(t)
    /\ \A i \in Slots : SlotTrue(i)
    /\ \A i, j \in Slots : SlotOnce(i, j)

HandleInv == Shape /\ OwnInv

Active(t) == stack[t] # <<>>
-----------------------------------------------------------------------------
(* Stacks of one frame and of two.                                            *)
Shows(t, top, bot, aux) ==
    /\ Active(t) /\ Top(t) = top /\ Bottom(t) = bot /\ Of(t) = bot.client /\ Aux(t) = aux
    /\ \A l : At(t, l) <=> top.pc = l

LEMMA OneFrame ==
    ASSUME NEW t, NEW f, stack[t] = <<f>>
    PROVE  Shows(t, f, f, Null) /\ Len(stack[t]) = 1 /\ Tail(stack[t]) = <<>>
  <1>1. PICK s : s = <<f>>
    OBVIOUS
  <1>2. Head(s) = f /\ Tail(s) = <<>> /\ Len(s) = 1 /\ s[Len(s)] = f /\ s # <<>>
    BY <1>1
  <1>3. stack[t] = s
    BY <1>1
  <1> HIDE <1>1
  <1> QED BY <1>2, <1>3 DEF Shows, Active, Top, Bottom, Of, Aux, At

LEMMA TwoFrames ==
    ASSUME NEW t, NEW f, NEW g, stack[t] = <<g, f>>
    PROVE  /\ Shows(t, g, f, g.client) /\ Len(stack[t]) = 2 /\ Tail(stack[t]) = <<f>>
           /\ stack[t][2] = f
  <1>1. PICK s : s = <<g, f>>
    OBVIOUS
  <1>2. /\ Head(s) = g /\ Tail(s) = <<f>> /\ Len(s) = 2 /\ s[Len(s)] = f /\ s # <<>> /\ s[2] = f
        /\ Tail(s) # <<>>
    BY <1>1
  <1>3. stack[t] = s
    BY <1>1
  <1> HIDE <1>1
  <1> QED BY <1>2, <1>3 DEF Shows, Active, Top, Bottom, Of, Aux, At

LEMMA NoFrame ==
    ASSUME NEW t, stack[t] = <<>>
    PROVE  ~Active(t) /\ Of(t) = Null /\ Aux(t) = Null /\ \A l : ~At(t, l)
  BY DEF Active, Of, Aux, At

(* What a thread in a call has.                                               *)
OneOf(t, f) == f \in FrameType /\ stack[t] = <<f>> /\ IsView(f)
TwoOf(t, f, g) ==
    f \in FrameType /\ g \in FrameType /\ stack[t] = <<g, f>> /\ IsView(f) /\ IsAlbd(g) /\ f.pc \in Binding

LEMMA Frames1 ==
    ASSUME Shape, NEW t \in Threads, Active(t)
    PROVE  \/ \E f : OneOf(t, f) /\ Shows(t, f, f, Null)
           \/ \E f, g : TwoOf(t, f, g) /\ Shows(t, g, f, g.client)
  <1>1. StackOf(t) /\ stack[t] # <<>>
    BY DEF Shape, Active
  <1>2. CASE \E f \in FrameType : stack[t] = <<f>> /\ IsView(f)
    BY <1>2, OneFrame DEF OneOf
  <1>3. CASE \E f, g \in FrameType : /\ stack[t] = <<g, f>> /\ IsView(f) /\ IsAlbd(g) /\ f.pc \in Binding
    BY <1>3, TwoFrames DEF TwoOf
  <1> QED BY <1>1, <1>2, <1>3 DEF StackOf

(* The other threads keep their stacks.                                       *)
Others(t) == DOMAIN stack' = Threads /\ \A u \in Threads : u # t => stack'[u] = stack[u]
Stacked(t, s) == Others(t) /\ stack'[t] = s

LEMMA Pushes ==
    ASSUME Shape, NEW t \in Threads, NEW s, stack' = [stack EXCEPT ![t] = s]
    PROVE  Stacked(t, s)
  BY DEF Shape, Stacked, Others

(* The frame on top is replaced, or the call on top returns.                  *)
Replaced(t, p, q) ==
    /\ Others(t) /\ Active(t) /\ Active(t)'
    /\ Top(t) = p /\ Top(t)' = q /\ \A l : (At(t, l) <=> p.pc = l) /\ (At(t, l)' <=> q.pc = l)
    /\ \/ /\ OneOf(t, p) /\ stack'[t] = <<q>> /\ Bottom(t) = p /\ Bottom(t)' = q
          /\ Of(t) = p.client /\ Of(t)' = q.client /\ Aux(t) = Null /\ Aux(t)' = Null
       \/ \E f : /\ TwoOf(t, f, p) /\ stack'[t] = <<q, f>> /\ Bottom(t) = f /\ Bottom(t)' = f
                 /\ Of(t) = f.client /\ Of(t)' = f.client /\ Aux(t) = p.client /\ Aux(t)' = q.client

LEMMA OneFrameNext ==
    ASSUME NEW t, NEW f, stack'[t] = <<f>>
    PROVE  Shows(t, f, f, Null)'
  <1>1. PICK s : s = <<f>>
    OBVIOUS
  <1>2. Head(s) = f /\ Tail(s) = <<>> /\ Len(s) = 1 /\ s[Len(s)] = f /\ s # <<>>
    BY <1>1
  <1>3. stack'[t] = s
    BY <1>1
  <1> HIDE <1>1
  <1> QED BY <1>2, <1>3 DEF Shows, Active, Top, Bottom, Of, Aux, At

LEMMA TwoFramesNext ==
    ASSUME NEW t, NEW f, NEW g, stack'[t] = <<g, f>>
    PROVE  Shows(t, g, f, g.client)'
  <1>1. PICK s : s = <<g, f>>
    OBVIOUS
  <1>2. /\ Head(s) = g /\ Tail(s) = <<f>> /\ Len(s) = 2 /\ s[Len(s)] = f /\ s # <<>>
        /\ Tail(s) # <<>>
    BY <1>1
  <1>3. stack'[t] = s
    BY <1>1
  <1> HIDE <1>1
  <1> QED BY <1>2, <1>3 DEF Shows, Active, Top, Bottom, Of, Aux, At

LEMMA NoFrameNext ==
    ASSUME NEW t, stack'[t] = <<>>
    PROVE  ~Active(t)' /\ Of(t)' = Null /\ Aux(t)' = Null /\ \A l : ~At(t, l)'
  BY DEF Active, Of, Aux, At

LEMMA Joined ==
    ASSUME NEW q, NEW f
    PROVE  <<q>> \o <<>> = <<q>> /\ <<q>> \o <<f>> = <<q, f>>
  <1>1. <<q>> \o <<>> = <<q>>
    <2>1. <<q>> \in Seq({q})
      OBVIOUS
    <2> QED BY <2>1, ConcatEmptySeq
  <1>2. <<q>> \o <<f>> = <<q, f>>
    <2>1. PICK a : a = <<q>>
      OBVIOUS
    <2>2. PICK b : b = <<f>>
      OBVIOUS
    <2>3. PICK c : c = <<q, f>>
      OBVIOUS
    <2> DEFINE S == {q, f}
    <2>4. a \in Seq(S) /\ Len(a) = 1 /\ a[1] = q
      BY <2>1
    <2>5. b \in Seq(S) /\ Len(b) = 1 /\ b[1] = f
      BY <2>2
    <2>6. c \in Seq(S) /\ Len(c) = 2 /\ c[1] = q /\ c[2] = f
      BY <2>3
    <2> HIDE DEF S
    <2>7. a \o b \in Seq(S) /\ Len(a \o b) = 2
      BY <2>4, <2>5
    <2>8. (a \o b)[1] = q /\ (a \o b)[2] = f
      <3>1. \A i \in 1 .. Len(a) + Len(b) :
               (a \o b)[i] = IF i <= Len(a) THEN a[i] ELSE b[i - Len(a)]
        BY <2>4, <2>5, ConcatProperties, Zenon
      <3>2. PICK d, m, n : d = a \o b /\ m = Len(a) /\ n = Len(b)
        OBVIOUS
      <3>3. \A i \in 1 .. m + n : d[i] = IF i <= m THEN a[i] ELSE b[i - m]
        BY <3>1, <3>2, Zenon
      <3>4. m = 1 /\ n = 1
        BY <2>4, <2>5, <3>2
      <3> HIDE <3>2
      <3>5. d[1] = a[1]
        BY <3>3, <3>4
      <3>6. d[2] = b[1]
        BY <3>3, <3>4
      <3> QED BY <2>4, <2>5, <3>2, <3>5, <3>6, Zenon
    <2>9. a \o b = c
      BY <2>6, <2>7, <2>8, SeqEqual
    <2> QED BY <2>1, <2>2, <2>3, <2>9, Zenon
  <1> QED BY <1>1, <1>2, Zenon

LEMMA SetTopped ==
    ASSUME Shape, NEW t \in Threads, Active(t), NEW q, SetTop(t, q)
    PROVE  \E p : Replaced(t, p, q)
  <1>1. CASE \E f : OneOf(t, f) /\ Shows(t, f, f, Null)
    <2>1. PICK f : OneOf(t, f) /\ Shows(t, f, f, Null)
      BY <1>1
    <2>2. stack'[t] = <<q>> /\ Others(t)
      <3>1. Tail(stack[t]) = <<>>
        BY <2>1, OneFrame DEF OneOf
      <3>2. <<q>> \o Tail(stack[t]) = <<q>>
        BY <3>1, Joined
      <3>3. stack' = [stack EXCEPT ![t] = <<q>> \o Tail(stack[t])]
        BY Zenon DEF SetTop
      <3>4. PICK s : s = <<q>>
        OBVIOUS
      <3>5. stack' = [stack EXCEPT ![t] = s]
        BY <3>2, <3>3, <3>4, Zenon
      <3>6. Stacked(t, s)
        BY <3>5, Pushes, Zenon
      <3> QED BY <3>4, <3>6, Zenon DEF Stacked
    <2>3. Shows(t, q, q, Null)'
      BY <2>2, OneFrameNext
    <2> QED BY <2>1, <2>2, <2>3 DEF Replaced, Shows
  <1>2. CASE \E f, g : TwoOf(t, f, g) /\ Shows(t, g, f, g.client)
    <2>1. PICK f, g : TwoOf(t, f, g) /\ Shows(t, g, f, g.client)
      BY <1>2
    <2>2. stack'[t] = <<q, f>> /\ Others(t)
      <3>1. Tail(stack[t]) = <<f>>
        BY <2>1, TwoFrames DEF TwoOf
      <3>2. <<q>> \o Tail(stack[t]) = <<q, f>>
        BY <3>1, Joined
      <3>3. stack' = [stack EXCEPT ![t] = <<q>> \o Tail(stack[t])]
        BY Zenon DEF SetTop
      <3>4. PICK s : s = <<q, f>>
        OBVIOUS
      <3>5. stack' = [stack EXCEPT ![t] = s]
        BY <3>2, <3>3, <3>4, Zenon
      <3>6. Stacked(t, s)
        BY <3>5, Pushes, Zenon
      <3> QED BY <3>4, <3>6, Zenon DEF Stacked
    <2>3. Shows(t, q, f, q.client)'
      BY <2>2, TwoFramesNext
    <2> QED BY <2>1, <2>2, <2>3 DEF Replaced, Shows
  <1> QED BY <1>1, <1>2, Frames1
-----------------------------------------------------------------------------
(* The shape of the stacks.                                                   *)
Kept(u) ==
    /\ Of(u)' = Of(u) /\ Aux(u)' = Aux(u) /\ Top(u)' = Top(u) /\ Bottom(u)' = Bottom(u)
    /\ Active(u)' <=> Active(u)
    /\ \A l : At(u, l)' <=> At(u, l)

LEMMA OthersKept ==
    ASSUME NEW t, Others(t), NEW u \in Threads, u # t
    PROVE  Kept(u)
  <1>1. stack'[u] = stack[u]
    BY DEF Others
  <1> QED BY <1>1, Zenon DEF Kept, Of, Aux, Top, Bottom, Active, At

StateFits ==
    /\ mvfs_xid \in Nat /\ mvfs_boottime \in Nat
    /\ cache \in Seq(SlotType) /\ live \subseteq Handles /\ calls \in 0 .. MaxCalls

LEMMA ShapeKept ==
    ASSUME Shape, NEW t \in Threads, Others(t), StackOf(t)', StateFits'
    PROVE  Shape'
  <1>1. DOMAIN stack' = Threads
    BY DEF Others
  <1>2. \A u \in Threads : StackOf(u)'
    <2>1. TAKE u \in Threads
    <2>2. CASE u = t
      BY <2>2
    <2>3. CASE u # t
      <3>1. stack'[u] = stack[u]
        BY <2>3 DEF Others
      <3>2. StackOf(u)
        BY DEF Shape
      <3> QED BY <3>1, <3>2, Zenon DEF StackOf
    <2> QED BY <2>2, <2>3
  <1> QED BY <1>1, <1>2, Zenon DEF Shape, StateFits

Fits(p, q) == q \in FrameType /\ (IsView(p) => IsView(q)) /\ (IsAlbd(p) => IsAlbd(q))

LEMMA SetFits ==
    ASSUME Shape, NEW t \in Threads, NEW p, NEW q, Replaced(t, p, q), Fits(p, q)
    PROVE  StackOf(t)'
  <1>1. CASE OneOf(t, p) /\ stack'[t] = <<q>>
    BY <1>1, Zenon DEF OneOf, Fits, StackOf
  <1>2. CASE \E f : TwoOf(t, f, p) /\ stack'[t] = <<q, f>>
    BY <1>2, Zenon DEF TwoOf, Fits, StackOf
  <1> QED BY <1>1, <1>2, Zenon DEF Replaced

LEMMA TopFits ==
    ASSUME Shape, NEW t \in Threads, Active(t)
    PROVE  /\ Top(t) \in FrameType
           /\ Top(t).op = "view" => IsView(Top(t))
           /\ Top(t).op # "view" => IsAlbd(Top(t))
  <1>1. CASE \E f : OneOf(t, f) /\ Shows(t, f, f, Null)
    BY <1>1 DEF OneOf, Shows, IsView
  <1>2. CASE \E f, g : TwoOf(t, f, g) /\ Shows(t, g, f, g.client)
    BY <1>2 DEF TwoOf, Shows, IsAlbd
  <1> QED BY <1>1, <1>2, Frames1
-----------------------------------------------------------------------------
(* Which handles a thread has after a step.                                   *)
Keeps(t) ==
    /\ Others(t) /\ Apart(t)'
    /\ \A h \in Handles : Has(t, h)' <=> Has(t, h)
Takes(t, h) ==
    /\ Others(t) /\ Apart(t)'
    /\ \A g \in Handles : Has(t, g)' <=> (Has(t, g) \/ g = h)
Drops(t, h) ==
    /\ Others(t) /\ Apart(t)'
    /\ \A g \in Handles : Has(t, g)' <=> (Has(t, g) /\ g # h)

LEMMA OthersHave ==
    ASSUME NEW t, Others(t), NEW u \in Threads, u # t
    PROVE  /\ \A h : Has(u, h)' <=> Has(u, h)
           /\ Apart(u)' <=> Apart(u)
           /\ \A l : At(u, l)' <=> At(u, l)
           /\ Top(u)' = Top(u)
  BY OthersKept, Zenon DEF Kept, Has, Apart

LEMMA SlotTyped ==
    ASSUME Shape
    PROVE  /\ Slots = 1 .. Len(cache) /\ Len(cache) \in Nat
           /\ \A i \in Slots : cache[i] \in SlotType /\ cache[i].client \in Handles \cup {Null}
  <1>1. cache \in Seq(SlotType)
    BY DEF Shape
  <1>2. cache \in [1 .. Len(cache) -> SlotType] /\ Len(cache) \in Nat
    BY <1>1, LenProperties
  <1>3. Slots = 1 .. Len(cache)
    BY <1>2 DEF Slots
  <1>4. \A i \in Slots : cache[i] \in SlotType
    BY <1>2, <1>3
  <1>5. \A s \in SlotType : s.client \in Handles \cup {Null}
    BY DEF SlotType
  <1> QED BY <1>2, <1>3, <1>4, <1>5

LEMMA OwnQuiet ==
    ASSUME Shape, OwnInv, NEW t \in Threads, Keeps(t), ~At(t, "insert")', cache' = cache, live' = live
    PROVE  OwnInv'
  <1>1. \A u \in Threads : \A h \in Handles : Has(u, h)' <=> Has(u, h)
    BY OthersHave DEF Keeps
  <1>2. \A h \in Handles : Held(h)' <=> Held(h)
    BY <1>1, Zenon DEF Held
  <1>3. Slots' = Slots /\ \A h : InCache(h)' <=> InCache(h)
    BY DEF Slots, InCache
  <1>5. HeldLive' /\ HeldOnce' /\ NoneLost'
    <2>1. HeldLive'
      BY <1>1 DEF OwnInv, HeldLive
    <2>2. HeldOnce'
      BY <1>1 DEF OwnInv, HeldOnce
    <2>3. NoneLost'
      BY <1>2, <1>3 DEF OwnInv, Shape, NoneLost
    <2> QED BY <2>1, <2>2, <2>3
  <1>6. \A u \in Threads : Apart(u)' /\ NewUncached(u)'
    <2>1. TAKE u \in Threads
    <2>2. CASE u = t
      BY <2>2 DEF Keeps, NewUncached
    <2>3. CASE u # t
      <3>1. Apart(u) /\ NewUncached(u)
        BY DEF OwnInv
      <3> QED BY <1>3, <2>3, <3>1, OthersHave DEF Keeps, NewUncached
    <2> QED BY <2>2, <2>3
  <1>7. \A i \in Slots' : SlotTrue(i)'
    BY <1>2, <1>3 DEF OwnInv, SlotTrue
  <1>8. \A i, j \in Slots' : SlotOnce(i, j)'
    BY <1>3 DEF OwnInv, SlotOnce
  <1> QED BY <1>5, <1>6, <1>7, <1>8, Zenon DEF OwnInv

LEMMA QuietStep ==
    ASSUME HandleInv, NEW t \in Threads, Active(t), NEW q, SetTop(t, q), Fits(Top(t), q),
           q.client = Top(t).client, q.pc # "insert", StateFits', cache' = cache, live' = live
    PROVE  HandleInv'
  <1>1. PICK p : Replaced(t, p, q)
    BY SetTopped DEF HandleInv
  <1>2. p = Top(t)
    BY <1>1 DEF Replaced
  <1>3. Of(t)' = Of(t) /\ Aux(t)' = Aux(t) /\ ~At(t, "insert")' /\ Others(t)
    BY <1>1, <1>2 DEF Replaced
  <1>4. Shape'
    BY <1>1, <1>2, <1>3, SetFits, ShapeKept DEF HandleInv
  <1>5. Keeps(t)
    BY <1>3 DEF Keeps, Has, Apart, HandleInv, OwnInv
  <1> QED BY <1>3, <1>4, <1>5, OwnQuiet DEF HandleInv
-----------------------------------------------------------------------------
(* The cache and the handles when a call takes a handle or gives one back.    *)
LEMMA HeldAfterTake ==
    ASSUME NEW t \in Threads, NEW h, Takes(t, h)
    PROVE  /\ \A u \in Threads : \A g \in Handles : Has(u, g)' <=> (Has(u, g) \/ (u = t /\ g = h))
           /\ \A g \in Handles : Held(g)' <=> (Held(g) \/ g = h)
  <1>1. \A u \in Threads : \A g \in Handles : Has(u, g)' <=> (Has(u, g) \/ (u = t /\ g = h))
    BY OthersHave DEF Takes
  <1> QED BY <1>1, Zenon DEF Held

LEMMA HeldAfterDrop ==
    ASSUME NEW t \in Threads, NEW h, Drops(t, h)
    PROVE  /\ \A u \in Threads : \A g \in Handles : Has(u, g)' <=> (Has(u, g) /\ ~(u = t /\ g = h))
  BY OthersHave DEF Drops

LEMMA OthersApart ==
    ASSUME OwnInv, NEW t \in Threads, Others(t), Apart(t)'
    PROVE  \A u \in Threads : Apart(u)'
  <1>1. \A u \in Threads : Apart(u)
    BY DEF OwnInv
  <1> QED BY <1>1, OthersHave

LEMMA OthersUncached ==
    ASSUME OwnInv, NEW t \in Threads, Others(t), NewUncached(t)',
           \A u \in Threads \ {t} : \A g \in Handles :
              At(u, "insert") /\ Top(u).client = g /\ InCache(g)' => InCache(g)
    PROVE  \A u \in Threads : NewUncached(u)'
  <1>1. TAKE u \in Threads
  <1>2. CASE u = t
    BY <1>2
  <1>3. CASE u # t
    <2>1. (At(u, "insert")' <=> At(u, "insert")) /\ Top(u)' = Top(u)
      BY <1>3, OthersHave
    <2>2. NewUncached(u)
      BY DEF OwnInv
    <2> QED BY <1>3, <2>1, <2>2 DEF NewUncached
  <1> QED BY <1>2, <1>3

(* A handle nobody uses is taken from the cache.                              *)
LEMMA OwnTake ==
    ASSUME Shape, OwnInv, NEW t \in Threads, NEW i \in Slots, NEW h,
           h = cache[i].client, h \in Handles, ~cache[i].inuse,
           cache' = [cache EXCEPT ![i].inuse = TRUE], live' = live,
           Takes(t, h), ~At(t, "insert")'
    PROVE  OwnInv'
  <1>1. /\ \A u \in Threads : \A g \in Handles : Has(u, g)' <=> (Has(u, g) \/ (u = t /\ g = h))
        /\ \A g \in Handles : Held(g)' <=> (Held(g) \/ g = h)
    BY HeldAfterTake
  <1>2. h \in Handles /\ h \in live /\ ~Held(h)
    <2>1. SlotTrue(i)
      BY DEF OwnInv
    <2>2. h \in live /\ ~Held(h)
      BY <2>1 DEF SlotTrue
    <2> QED BY <2>2 DEF Shape
  <1>3. /\ Slots' = Slots
        /\ \A j \in Slots : /\ cache'[j].client = cache[j].client
                            /\ cache'[j].inuse <=> (cache[j].inuse \/ j = i)
    <2>1. Slots' = Slots
      BY DEF Slots
    <2>2. \A j \in Slots : cache[j] \in SlotType
      BY SlotTyped
    <2>3. \A j \in Slots : j # i => cache'[j] = cache[j]
      BY DEF Slots
    <2>4. cache'[i] = [cache[i] EXCEPT !.inuse = TRUE]
      BY Zenon DEF Slots
    <2>5. cache'[i].client = cache[i].client /\ cache'[i].inuse = TRUE
      BY <2>2, <2>4 DEF SlotType
    <2> SUFFICES ASSUME NEW j \in Slots
                 PROVE  /\ cache'[j].client = cache[j].client
                        /\ cache'[j].inuse <=> (cache[j].inuse \/ j = i)
      BY <2>1, Zenon
    <2>6. CASE j = i
      BY <2>5, <2>6, Zenon
    <2>7. CASE j # i
      BY <2>3, <2>7, Zenon
    <2> QED BY <2>6, <2>7
  <1>4. \A g : InCache(g)' <=> InCache(g)
    BY <1>3, Zenon DEF InCache
  <1>5. HeldLive' /\ HeldOnce' /\ NoneLost'
    <2>1. HeldLive'
      BY <1>1, <1>2 DEF OwnInv, HeldLive
    <2>2. HeldOnce'
      BY <1>1, <1>2 DEF OwnInv, HeldOnce, Held
    <2>3. NoneLost'
      BY <1>1, <1>4 DEF OwnInv, Shape, NoneLost
    <2> QED BY <2>1, <2>2, <2>3
  <1>6. \A u \in Threads : Apart(u)' /\ NewUncached(u)'
    <2>1. NewUncached(t)'
      BY DEF NewUncached
    <2> QED BY <1>4, <2>1, OthersApart, OthersUncached DEF Takes
  <1>7. \A j \in Slots' : SlotTrue(j)'
    <2> SUFFICES ASSUME NEW j \in Slots, NEW g \in Handles, cache'[j].client = g
                 PROVE  g \in live' /\ (cache'[j].inuse <=> Held(g)')
      BY <1>3 DEF SlotTrue
    <2>1. cache[j].client = g /\ (cache'[j].inuse <=> (cache[j].inuse \/ j = i))
      BY <1>3
    <2>2. g \in live /\ (cache[j].inuse <=> Held(g))
      BY <2>1 DEF OwnInv, SlotTrue
    <2>3. j = i <=> g = h
      BY <1>2, <2>1 DEF OwnInv, SlotOnce
    <2>4. Held(g)' <=> (Held(g) \/ g = h)
      BY <1>1
    <2> QED BY <2>1, <2>2, <2>3, <2>4
  <1>8. \A j, k \in Slots' : SlotOnce(j, k)'
    BY <1>3 DEF OwnInv, SlotOnce
  <1> QED BY <1>5, <1>6, <1>7, <1>8, Zenon DEF OwnInv

(* A new handle.                                                              *)
LEMMA OwnCreate ==
    ASSUME Shape, OwnInv, NEW t \in Threads, NEW h \in Handles, h \notin live,
           cache' = cache, live' = live \cup {h}, Takes(t, h), Top(t)'.client = h
    PROVE  OwnInv'
  <1>1. /\ \A u \in Threads : \A g \in Handles : Has(u, g)' <=> (Has(u, g) \/ (u = t /\ g = h))
        /\ \A g \in Handles : Held(g)' <=> (Held(g) \/ g = h)
    BY HeldAfterTake
  <1>2. Slots' = Slots /\ \A g : InCache(g)' <=> InCache(g)
    BY DEF Slots, InCache
  <1>3. ~InCache(h) /\ \A u \in Threads : ~Has(u, h)
    BY DEF OwnInv, HeldLive, SlotTrue, InCache
  <1>4. HeldLive' /\ HeldOnce' /\ NoneLost'
    <2>1. HeldLive'
      BY <1>1 DEF OwnInv, HeldLive
    <2>2. HeldOnce'
      BY <1>1, <1>3 DEF OwnInv, HeldOnce
    <2>3. NoneLost'
      BY <1>1, <1>2 DEF OwnInv, Shape, NoneLost
    <2> QED BY <2>1, <2>2, <2>3
  <1>5. \A u \in Threads : Apart(u)' /\ NewUncached(u)'
    <2>1. NewUncached(t)'
      BY <1>2, <1>3 DEF NewUncached
    <2> QED BY <1>2, <2>1, OthersApart, OthersUncached DEF Takes
  <1>6. \A j \in Slots' : SlotTrue(j)'
    <2> SUFFICES ASSUME NEW j \in Slots, NEW g \in Handles, cache[j].client = g
                 PROVE  g \in live' /\ (cache[j].inuse <=> Held(g)')
      BY <1>2 DEF SlotTrue
    <2>1. g \in live /\ (cache[j].inuse <=> Held(g))
      BY DEF OwnInv, SlotTrue
    <2> QED BY <1>1, <2>1
  <1>7. \A j, k \in Slots' : SlotOnce(j, k)'
    BY <1>2 DEF OwnInv, SlotOnce
  <1> QED BY <1>4, <1>5, <1>6, <1>7, Zenon DEF OwnInv

LEMMA TopHas ==
    ASSUME Shape, NEW t \in Threads, Active(t), NEW h, Top(t).client = h
    PROVE  Has(t, h)
  <1>1. CASE \E f : OneOf(t, f) /\ Shows(t, f, f, Null)
    BY <1>1 DEF Shows, Has
  <1>2. CASE \E f, g : TwoOf(t, f, g) /\ Shows(t, g, f, g.client)
    BY <1>2 DEF Shows, Has
  <1> QED BY <1>1, <1>2, Frames1

(* The new handle goes to a slot whose handle nobody uses.                    *)
LEMMA OwnInsert ==
    ASSUME Shape, OwnInv, NEW t \in Threads, NEW h \in Handles, At(t, "insert"), Top(t).client = h,
           NEW i \in Slots, cache[i].client \notin Handles \/ ~cache[i].inuse, NEW pr,
           cache' = [cache EXCEPT ![i] = [client |-> h, inuse |-> TRUE, proto |-> pr]],
           live' = live \ {cache[i].client}, Keeps(t), ~At(t, "insert")'
    PROVE  OwnInv'
  <1>1. PICK o : o = cache[i].client
    OBVIOUS
  <1>2. /\ \A u \in Threads : \A g \in Handles : Has(u, g)' <=> Has(u, g)
        /\ \A g \in Handles : Held(g)' <=> Held(g)
    <2>1. \A u \in Threads : \A g \in Handles : Has(u, g)' <=> Has(u, g)
      BY OthersHave DEF Keeps
    <2> QED BY <2>1, Zenon DEF Held
  <1>3. /\ Slots' = Slots
        /\ \A j \in Slots : j # i => cache'[j] = cache[j]
        /\ cache'[i].client = h /\ cache'[i].inuse
    <2>1. cache'[i] = [client |-> h, inuse |-> TRUE, proto |-> pr]
      BY Zenon DEF Slots
    <2>2. Slots' = Slots /\ \A j \in Slots : j # i => cache'[j] = cache[j]
      BY DEF Slots
    <2> QED BY <2>1, <2>2
  <1>4. Has(t, h) /\ h \in live /\ ~InCache(h) /\ h # o
    <2>1. Has(t, h)
      BY TopHas DEF At, Active
    <2>2. ~InCache(h)
      BY DEF OwnInv, NewUncached
    <2> QED BY <1>1, <2>1, <2>2 DEF OwnInv, HeldLive, InCache
  <1>5. o \in Handles => o \in live /\ ~Held(o) /\ \A j \in Slots : cache[j].client = o => j = i
    <2>1. SlotTrue(i) /\ \A j \in Slots : SlotOnce(i, j)
      BY DEF OwnInv
    <2> QED BY <1>1, <2>1 DEF SlotTrue, SlotOnce
  <1>6. \A g \in Handles : InCache(g)' <=> (g = h \/ (InCache(g) /\ g # o))
    BY <1>1, <1>3, <1>4, <1>5 DEF InCache
  <1>7. HeldLive' /\ HeldOnce' /\ NoneLost'
    <2>1. HeldLive'
      BY <1>1, <1>2, <1>5 DEF OwnInv, HeldLive, Held
    <2>2. HeldOnce'
      BY <1>2 DEF OwnInv, HeldOnce
    <2>3. NoneLost'
      BY <1>1, <1>2, <1>6 DEF OwnInv, Shape, NoneLost
    <2> QED BY <2>1, <2>2, <2>3
  <1>8. \A u \in Threads : Apart(u)' /\ NewUncached(u)'
    <2>1. NewUncached(t)'
      BY DEF NewUncached
    <2>2. ASSUME NEW u \in Threads \ {t}, NEW g \in Handles, At(u, "insert"), Top(u).client = g, InCache(g)'
          PROVE  InCache(g)
      <3>1. Has(u, g)
        BY <2>2, TopHas DEF At, Active
      <3>2. g # h
        BY <1>4, <3>1 DEF OwnInv, HeldOnce
      <3> QED BY <1>6, <2>2, <3>2
    <2> QED BY <2>1, <2>2, OthersApart, OthersUncached DEF Keeps
  <1>9. \A j \in Slots' : SlotTrue(j)'
    <2> SUFFICES ASSUME NEW j \in Slots, NEW g \in Handles, cache'[j].client = g
                 PROVE  g \in live' /\ (cache'[j].inuse <=> Held(g)')
      BY <1>3 DEF SlotTrue
    <2>1. CASE j = i
      <3>1. g = h /\ cache'[j].inuse
        BY <1>3, <2>1
      <3>2. Held(h)'
        BY <1>2, <1>4 DEF Held
      <3> QED BY <1>1, <1>4, <3>1, <3>2
    <2>2. CASE j # i
      <3>1. cache[j].client = g /\ cache'[j].inuse = cache[j].inuse
        BY <1>3, <2>2
      <3>2. g \in live /\ (cache[j].inuse <=> Held(g)) /\ g # o
        BY <1>5, <2>2, <3>1 DEF OwnInv, SlotTrue
      <3> QED BY <1>1, <1>2, <3>1, <3>2
    <2> QED BY <2>1, <2>2
  <1>10. \A j, k \in Slots' : SlotOnce(j, k)'
    <2> SUFFICES ASSUME NEW j \in Slots, NEW k \in Slots, NEW g \in Handles,
                        cache'[j].client = g, cache'[k].client = g
                 PROVE  j = k
      BY <1>3 DEF SlotOnce
    <2>1. ~InCache(h) /\ cache'[i].client = h
      BY <1>3, <1>4
    <2>2. CASE j # i /\ k # i
      BY <1>3, <2>2 DEF OwnInv, SlotOnce
    <2>3. CASE j = i /\ k # i
      BY <1>3, <2>1, <2>3 DEF InCache
    <2>4. CASE j # i /\ k = i
      BY <1>3, <2>1, <2>4 DEF InCache
    <2> QED BY <2>2, <2>3, <2>4
  <1> QED BY <1>7, <1>8, <1>9, <1>10, Zenon DEF OwnInv

(* A call gives its handle back, or destroys it.                              *)
LEMMA OwnFree ==
    ASSUME Shape, OwnInv, NEW t \in Threads, NEW h \in Handles, Has(t, h), NEW err \in BOOLEAN,
           cache' = [i \in Slots |-> IF cache[i].client = h THEN SlotAfter(cache[i], err) ELSE cache[i]],
           live' = IF ~InCache(h) \/ err THEN live \ {h} ELSE live,
           Drops(t, h), ~At(t, "insert")'
    PROVE  OwnInv'
  <1>1. \A u \in Threads : \A g \in Handles : Has(u, g)' <=> (Has(u, g) /\ g # h)
    <2>1. \A u \in Threads : \A g \in Handles : Has(u, g)' <=> (Has(u, g) /\ ~(u = t /\ g = h))
      BY HeldAfterDrop
    <2>2. \A u \in Threads : Has(u, h) => u = t
      BY DEF OwnInv, HeldOnce
    <2> QED BY <2>1, <2>2
  <1>2. \A g \in Handles : Held(g)' <=> (Held(g) /\ g # h)
    BY <1>1 DEF Held
  <1>3. /\ Slots' = Slots
        /\ \A j \in Slots : cache[j].client # h => cache'[j] = cache[j]
        /\ \A j \in Slots : cache[j].client = h =>
              ~cache'[j].inuse /\ cache'[j].client = (IF err THEN Null ELSE h)
    <2>1. Slots' = Slots
      BY Zenon DEF Slots
    <2>2. \A j \in Slots : cache[j].client # h => cache'[j] = cache[j]
      BY Zenon
    <2>3. \A j \in Slots : cache[j].client = h => cache'[j] = SlotAfter(cache[j], err)
      BY Zenon
    <2>4. \A s \in SlotType : s.client = h =>
             /\ ~SlotAfter(s, err).inuse
             /\ SlotAfter(s, err).client = (IF err THEN Null ELSE h)
      BY DEF SlotType, SlotAfter
    <2> QED BY <2>1, <2>2, <2>3, <2>4, SlotTyped
  <1>4. /\ \A g \in Handles : g # h => (InCache(g)' <=> InCache(g))
        /\ InCache(h)' <=> (InCache(h) /\ ~err)
    BY <1>3, RpcAssumption DEF InCache
  <1>5. HeldLive' /\ HeldOnce' /\ NoneLost'
    <2>1. HeldLive'
      BY <1>1 DEF OwnInv, HeldLive
    <2>2. HeldOnce'
      BY <1>1 DEF OwnInv, HeldOnce
    <2>3. NoneLost'
      BY <1>2, <1>4 DEF OwnInv, Shape, NoneLost
    <2> QED BY <2>1, <2>2, <2>3
  <1>6. \A u \in Threads : Apart(u)' /\ NewUncached(u)'
    <2>1. NewUncached(t)'
      BY DEF NewUncached
    <2> QED BY <1>4, <2>1, OthersApart, OthersUncached DEF Drops
  <1>7. \A j \in Slots' : SlotTrue(j)'
    <2> SUFFICES ASSUME NEW j \in Slots, NEW g \in Handles, cache'[j].client = g
                 PROVE  g \in live' /\ (cache'[j].inuse <=> Held(g)')
      BY <1>3 DEF SlotTrue
    <2>1. CASE cache[j].client = h
      <3>1. g = h /\ ~err /\ ~cache'[j].inuse /\ InCache(h)
        BY <1>3, <2>1, RpcAssumption DEF InCache
      <3>2. h \in live
        BY DEF OwnInv, HeldLive
      <3> QED BY <1>2, <3>1, <3>2
    <2>2. CASE cache[j].client # h
      <3>1. cache[j].client = g /\ cache'[j].inuse = cache[j].inuse /\ g # h
        BY <1>3, <2>2
      <3>2. g \in live /\ (cache[j].inuse <=> Held(g))
        BY <3>1 DEF OwnInv, SlotTrue
      <3> QED BY <1>2, <3>1, <3>2
    <2> QED BY <2>1, <2>2
  <1>8. \A j, k \in Slots' : SlotOnce(j, k)'
    <2> SUFFICES ASSUME NEW j \in Slots, NEW k \in Slots, NEW g \in Handles,
                        cache'[j].client = g, cache'[k].client = g
                 PROVE  j = k
      BY <1>3 DEF SlotOnce
    <2>1. cache[j].client = g /\ cache[k].client = g
      BY <1>3, RpcAssumption
    <2> QED BY <2>1 DEF OwnInv, SlotOnce
  <1> QED BY <1>5, <1>6, <1>7, <1>8, Zenon DEF OwnInv

(* The cache is replaced by an empty one.                                     *)
LEMMA OwnClear ==
    ASSUME Shape, OwnInv, NEW n \in Nat, cache' = EmptyCache(n), live' = live \ ToDestroy, stack' = stack
    PROVE  OwnInv'
  <1>1. /\ \A u \in Threads : \A g \in Handles : Has(u, g)' <=> Has(u, g)
        /\ \A g \in Handles : Held(g)' <=> Held(g)
        /\ \A u \in Threads : Apart(u)' <=> Apart(u)
    BY Zenon DEF Has, Held, Apart, Of, Aux, Bottom
  <1>2. \A j \in Slots' : cache'[j].client = Null
    BY Zenon DEF Slots, EmptyCache, EmptySlot
  <1>3. \A g \in Handles : ~InCache(g)'
    BY <1>2, RpcAssumption DEF InCache
  <1>4. \A g \in Handles : Held(g) => g \notin ToDestroy
    BY DEF OwnInv, SlotTrue, ToDestroy, Slots
  <1>5. \A g \in live : ~Held(g) => g \in ToDestroy
    BY DEF OwnInv, NoneLost, SlotTrue, InCache, ToDestroy, Slots, Shape
  <1>6. HeldLive' /\ HeldOnce' /\ NoneLost'
    <2>1. HeldLive'
      BY <1>1, <1>4 DEF OwnInv, HeldLive, Held
    <2>2. HeldOnce'
      BY <1>1 DEF OwnInv, HeldOnce
    <2>3. NoneLost'
      BY <1>1, <1>5 DEF NoneLost, Shape
    <2> QED BY <2>1, <2>2, <2>3
  <1>7. \A u \in Threads : Apart(u)' /\ NewUncached(u)'
    BY <1>1, <1>3 DEF OwnInv, NewUncached
  <1>8. \A j, k \in Slots' : SlotTrue(j)' /\ SlotOnce(j, k)'
    BY <1>2, RpcAssumption DEF SlotTrue, SlotOnce
  <1> QED BY <1>6, <1>7, <1>8, Zenon DEF OwnInv
-----------------------------------------------------------------------------
(* The steps of a call.                                                       *)
LEMMA Returned ==
    ASSUME Shape, OwnInv, NEW t \in Threads, Active(t), NEW err \in BOOLEAN, Return(t, err)
    PROVE  /\ Others(t) /\ StackOf(t)' /\ ~At(t, "insert")' /\ Apart(t)'
           /\ \A g \in Handles : Has(t, g)' <=> (Has(t, g) /\ g # Top(t).client)
  <1>1. CASE \E f : OneOf(t, f) /\ Shows(t, f, f, Null)
    <2>1. PICK f : OneOf(t, f) /\ Shows(t, f, f, Null)
      BY <1>1
    <2>2. Len(stack[t]) = 1
      BY <2>1, OneFrame DEF OneOf
    <2>3. stack' = [stack EXCEPT ![t] = <<>>]
      BY <2>2, Zenon DEF Return
    <2>4. Others(t) /\ stack'[t] = <<>>
      BY <2>3, Pushes DEF Stacked
    <2>5. ~Active(t)' /\ Of(t)' = Null /\ Aux(t)' = Null /\ ~At(t, "insert")'
      BY <2>4, NoFrameNext
    <2>6. \A g \in Handles : g # Null
      BY RpcAssumption
    <2>7. StackOf(t)'
      BY <2>4 DEF StackOf
    <2> QED BY <2>1, <2>4, <2>5, <2>6, <2>7 DEF Shows, Has, Apart
  <1>2. CASE \E f, g : TwoOf(t, f, g) /\ Shows(t, g, f, g.client)
    <2>1. PICK f, p : TwoOf(t, f, p) /\ Shows(t, p, f, p.client)
      BY <1>2
    <2>2. Len(stack[t]) = 2 /\ Top(t) = p
      BY <2>1, TwoFrames DEF TwoOf, Shows
    <2>3. PICK q : q = [p EXCEPT !.pc = "end", !.err = err, !.client = Null]
      OBVIOUS
    <2>4. SetTop(t, q)
      <3>1. Len(stack[t]) # 1
        BY <2>2
      <3> QED BY <2>2, <2>3, <3>1, Zenon DEF Return
    <2>5. PICK r : Replaced(t, r, q)
      BY <2>4, SetTopped
    <2>6. r = p
      BY <2>2, <2>5 DEF Replaced
    <2>7. Fits(p, q) /\ q.client = Null /\ q.pc = "end"
      BY <2>1, <2>3 DEF TwoOf, FrameType, IsView, IsAlbd, Fits, Pcs, Carrying, Binding
    <2>8. StackOf(t)'
      BY <2>5, <2>6, <2>7, SetFits
    <2>9. Of(t) = f.client /\ Of(t)' = f.client /\ Aux(t) = p.client /\ Aux(t)' = Null
      <3>1. ~OneOf(t, p)
        BY <2>2, OneFrame DEF OneOf
      <3> QED BY <2>1, <2>5, <2>6, <2>7, <3>1 DEF Replaced, Shows
    <2>10. Others(t) /\ ~At(t, "insert")'
      BY <2>5, <2>7 DEF Replaced
    <2>11. Apart(t) /\ \A g \in Handles : g # Null
      BY RpcAssumption DEF OwnInv
    <2> QED BY <2>2, <2>8, <2>9, <2>10, <2>11 DEF Has, Apart
  <1> QED BY <1>1, <1>2, Frames1

LEMMA TakesTop ==
    ASSUME NEW t, NEW p, NEW q, Replaced(t, p, q), NEW h \in Handles, p.client = Null, q.client = h, ~Has(t, h)
    PROVE  Takes(t, h)
  <1>1. \A g \in Handles : g # Null
    BY RpcAssumption
  <1> QED BY <1>1 DEF Replaced, Takes, Has, Apart

LEMMA QuietMove ==
    ASSUME HandleInv, NEW t \in Threads, Active(t), NEW q \in FrameType, SetTop(t, q),
           Top(t).pc \in Carrying, q.op = Top(t).op, q.call = Top(t).call,
           q.client = Top(t).client, q.rebind = Top(t).rebind,
           \/ q.pc \in Carrying \ {"insert"}
           \/ q.pc = "rebind" /\ Top(t).rebind,
           StateFits', cache' = cache, live' = live
    PROVE  HandleInv'
  <1>1. Fits(Top(t), q)
    BY DEF Fits, IsView, IsAlbd, Carrying, Binding
  <1>2. q.pc # "insert"
    OBVIOUS
  <1> QED BY <1>1, <1>2, QuietStep

LEMMA Starts ==
    ASSUME HandleInv, NEW t \in Threads, CallStart(t)
    PROVE  HandleInv'
  <1>1. PICK l \in {"get", "probe"} : stack' = [stack EXCEPT ![t] = <<Frame("view", l, calls + 1)>>]
    BY Zenon DEF CallStart
  <1>2. calls + 1 \in 1 .. MaxCalls /\ StateFits'
    BY RpcAssumption DEF CallStart, StateFits, HandleInv, Shape
  <1>3. PICK f : f = Frame("view", l, calls + 1)
    OBVIOUS
  <1>4. f \in FrameType /\ IsView(f) /\ f.client = Null /\ f.pc # "insert"
    BY <1>2, <1>3, RpcAssumption DEF Frame, FrameType, IsView, Pcs, Carrying, Binding
  <1>5. Others(t) /\ stack'[t] = <<f>>
    BY <1>1, <1>3, Pushes DEF Stacked, HandleInv
  <1>6. StackOf(t)'
    BY <1>4, <1>5, Zenon DEF StackOf
  <1>7. Shows(t, f, f, Null)'
    BY <1>5, OneFrameNext
  <1>8. stack[t] = <<>> /\ cache' = cache /\ live' = live
    BY DEF CallStart
  <1>9. Of(t) = Null /\ Aux(t) = Null
    BY <1>8, NoFrame
  <1>10. Keeps(t) /\ ~At(t, "insert")'
    BY <1>4, <1>5, <1>7, <1>9 DEF Keeps, Shows, Has, Apart
  <1> QED BY <1>2, <1>5, <1>6, <1>8, <1>10, ShapeKept, OwnQuiet DEF HandleInv

LEMMA Failing ==
    ASSUME HandleInv, NEW t \in Threads, NEW k \in Carrying, At(t, k), StateFits', cache' = cache, live' = live,
           Fail(t, "free") \/ Again(t)
    PROVE  HandleInv'
  <1>1. Active(t) /\ Top(t).pc \in Carrying
    BY DEF At, Active
  <1>2. Top(t) \in FrameType
    BY <1>1, TopFits DEF HandleInv
  <1>3. CASE Fail(t, "free")
    <2>1. PICK q : q = [Top(t) EXCEPT !.pc = "free", !.err = TRUE]
      OBVIOUS
    <2>2. SetTop(t, q)
      BY <1>3, <2>1, Zenon DEF Fail
    <2>3. /\ q \in FrameType /\ q.pc \in Carrying \ {"insert"} /\ q.op = Top(t).op /\ q.call = Top(t).call
          /\ q.client = Top(t).client /\ q.rebind = Top(t).rebind
      BY <1>2, <2>1 DEF FrameType, Pcs, Carrying
    <2> QED BY <1>1, <2>2, <2>3, QuietMove
  <1>4. CASE Top(t).rebind /\ Again(t)
    <2>1. PICK q : q = [Top(t) EXCEPT !.pc = "rebind"]
      OBVIOUS
    <2>2. SetTop(t, q)
      BY <1>4, <2>1, Zenon DEF Again, Goto
    <2>3. /\ q \in FrameType /\ q.pc = "rebind" /\ q.op = Top(t).op /\ q.call = Top(t).call
          /\ q.client = Top(t).client /\ q.rebind = Top(t).rebind
      BY <1>2, <2>1 DEF FrameType, Pcs, Binding
    <2> QED BY <1>1, <1>4, <2>2, <2>3, QuietMove
  <1>5. CASE ~Top(t).rebind /\ Again(t)
    BY <1>3, <1>5, Zenon DEF Again
  <1> QED BY <1>3, <1>4, <1>5

LEMMA Numbered ==
    ASSUME NEW p \in FrameType, NEW x \in Nat
    PROVE  LET q == [p EXCEPT !.pc = "call", !.xid = x]
           IN  /\ q \in FrameType /\ q.op = p.op /\ q.call = p.call /\ q.client = p.client
               /\ q.rebind = p.rebind /\ q.pc \in Carrying \ {"insert"}
  BY DEF FrameType, Pcs, Carrying

LEMMA Moves ==
    ASSUME HandleInv, NEW t \in Threads, ~InitFails,
           \/ AllocXid(t) \/ WrapBoottime(t) \/ WrapXid(t) \/ Send(t) \/ Unbound(t)
           \/ Reply(t) \/ RetryUid(t) \/ Timeout(t) \/ WrongServer(t) \/ GiveUp(t)
    PROVE  HandleInv'
  <1>1. \A l \in Carrying : At(t, l) => Active(t) /\ Top(t).pc = l /\ Top(t).pc \in Carrying
    BY DEF At, Active
  <1>2. Active(t) => Top(t) \in FrameType
    BY TopFits DEF HandleInv
  <1>3. StateFits
    BY DEF HandleInv, Shape, StateFits
  <1>4. /\ mvfs_xid \in Nat /\ mvfs_boottime \in Nat
    BY <1>3 DEF StateFits
  <1>5. ASSUME NEW q, SetTop(t, q), Active(t), Top(t).pc \in Carrying, q \in FrameType, q.op = Top(t).op,
               q.call = Top(t).call, q.client = Top(t).client, q.rebind = Top(t).rebind,
               q.pc \in Carrying \ {"insert"}, StateFits', cache' = cache, live' = live
        PROVE  HandleInv'
    BY <1>5, QuietMove
  <1>6. CASE AllocXid(t)
    <2>1. CASE mvfs_xid = XidLimit
      <3>1. PICK q : q = [Top(t) EXCEPT !.pc = "wrap"]
        OBVIOUS
      <3>2. SetTop(t, q) /\ mvfs_xid' = 0
        BY <1>6, <2>1, <3>1, Zenon DEF AllocXid, Goto
      <3>3. Active(t) /\ Top(t).pc \in Carrying
        BY <1>1, <1>6 DEF AllocXid, Carrying
      <3>4. /\ q \in FrameType /\ q.op = Top(t).op /\ q.call = Top(t).call /\ q.client = Top(t).client
            /\ q.rebind = Top(t).rebind /\ q.pc \in Carrying \ {"insert"}
        BY <1>2, <3>1, <3>3 DEF FrameType, Pcs, Carrying
      <3>5. StateFits' /\ cache' = cache /\ live' = live
        BY <1>3, <1>6, <3>2 DEF AllocXid, StateFits
      <3> QED BY <1>5, <3>2, <3>3, <3>4, <3>5
    <2>2. CASE mvfs_xid # XidLimit
      <3>1. PICK q, x : x = mvfs_xid + 1 /\ q = [Top(t) EXCEPT !.pc = "call", !.xid = x]
        OBVIOUS
      <3>2. SetTop(t, q) /\ mvfs_xid' = mvfs_xid + 1
        BY <1>6, <2>2, <3>1, Zenon DEF AllocXid
      <3>3. Active(t) /\ Top(t).pc \in Carrying
        BY <1>1, <1>6 DEF AllocXid, Carrying
      <3>4. /\ q \in FrameType /\ q.op = Top(t).op /\ q.call = Top(t).call /\ q.client = Top(t).client
            /\ q.rebind = Top(t).rebind /\ q.pc \in Carrying \ {"insert"}
        <4>1. x \in Nat /\ Top(t) \in FrameType
          BY <1>2, <1>4, <3>1, <3>3
        <4> QED BY <3>1, <4>1, Numbered
      <3>5. StateFits' /\ cache' = cache /\ live' = live
        BY <1>3, <1>6, <3>2 DEF AllocXid, StateFits
      <3> QED BY <1>5, <3>2, <3>3, <3>4, <3>5
    <2> QED BY <2>1, <2>2
  <1>7. CASE WrapBoottime(t)
    <2>1. PICK q : q = [Top(t) EXCEPT !.pc = "wrapped"]
      OBVIOUS
    <2>2. SetTop(t, q)
      BY <1>7, <2>1, Zenon DEF WrapBoottime, Goto
    <2>3. Active(t) /\ Top(t).pc \in Carrying
      BY <1>1, <1>7 DEF WrapBoottime, Carrying
    <2>4. /\ q \in FrameType /\ q.op = Top(t).op /\ q.call = Top(t).call /\ q.client = Top(t).client
          /\ q.rebind = Top(t).rebind /\ q.pc \in Carrying \ {"insert"}
      BY <1>2, <2>1, <2>3 DEF FrameType, Pcs, Carrying
    <2>5. StateFits' /\ cache' = cache /\ live' = live
      BY <1>3, <1>7 DEF WrapBoottime, NewBoottime, StateFits
    <2> QED BY <1>5, <2>2, <2>3, <2>4, <2>5
  <1>8. CASE WrapXid(t)
    <2>1. PICK q, x : x = mvfs_xid + 1 /\ q = [Top(t) EXCEPT !.pc = "call", !.xid = x]
      OBVIOUS
    <2>2. SetTop(t, q)
      BY <1>8, <2>1, Zenon DEF WrapXid
    <2>3. Active(t) /\ Top(t).pc \in Carrying
      BY <1>1, <1>8 DEF WrapXid, Carrying
    <2>4. /\ q \in FrameType /\ q.op = Top(t).op /\ q.call = Top(t).call /\ q.client = Top(t).client
          /\ q.rebind = Top(t).rebind /\ q.pc \in Carrying \ {"insert"}
      <3>1. x \in Nat /\ Top(t) \in FrameType
        BY <1>2, <1>4, <2>1, <2>3
      <3> QED BY <2>1, <3>1, Numbered
    <2>5. StateFits' /\ cache' = cache /\ live' = live
      BY <1>3, <1>8 DEF WrapXid, StateFits
    <2> QED BY <1>5, <2>2, <2>3, <2>4, <2>5
  <1>9. CASE Send(t)
    <2>1. PICK q : q = [Top(t) EXCEPT !.pc = "wait", !.bt = mvfs_boottime]
      OBVIOUS
    <2>2. SetTop(t, q)
      BY <1>9, <2>1, Zenon DEF Send
    <2>3. Active(t) /\ Top(t).pc \in Carrying
      BY <1>1, <1>9 DEF Send, Carrying
    <2>4. /\ q \in FrameType /\ q.op = Top(t).op /\ q.call = Top(t).call /\ q.client = Top(t).client
          /\ q.rebind = Top(t).rebind /\ q.pc \in Carrying \ {"insert"}
      BY <1>2, <1>4, <2>1, <2>3 DEF FrameType, Pcs, Carrying
    <2>5. StateFits' /\ cache' = cache /\ live' = live
      BY <1>3, <1>9 DEF Send, StateFits
    <2> QED BY <1>5, <2>2, <2>3, <2>4, <2>5
  <1>10. CASE Unbound(t)
    <2>1. StateFits' /\ cache' = cache /\ live' = live /\ (At(t, "call") \/ At(t, "again")) /\ Again(t)
      BY <1>3, <1>10 DEF Unbound, StateFits
    <2> QED BY <2>1, Failing DEF Carrying
  <1>11. CASE Reply(t)
    <2>1. PICK q : q = [Top(t) EXCEPT !.pc = "free"]
      OBVIOUS
    <2>2. SetTop(t, q)
      BY <1>11, <2>1, Zenon DEF Reply, Goto
    <2>3. Active(t) /\ Top(t).pc \in Carrying
      BY <1>1, <1>11 DEF Reply, Carrying
    <2>4. /\ q \in FrameType /\ q.op = Top(t).op /\ q.call = Top(t).call /\ q.client = Top(t).client
          /\ q.rebind = Top(t).rebind /\ q.pc \in Carrying \ {"insert"}
      BY <1>2, <2>1, <2>3 DEF FrameType, Pcs, Carrying
    <2>5. StateFits' /\ cache' = cache /\ live' = live
      BY <1>3, <1>11 DEF Reply, drv, StateFits
    <2> QED BY <1>5, <2>2, <2>3, <2>4, <2>5
  <1>12. CASE RetryUid(t)
    <2>1. PICK q : q = [Top(t) EXCEPT !.pc = "xid", !.ruid = TRUE]
      OBVIOUS
    <2>2. SetTop(t, q)
      BY <1>12, <2>1, Zenon DEF RetryUid
    <2>3. Active(t) /\ Top(t).pc \in Carrying
      BY <1>1, <1>12 DEF RetryUid, Carrying
    <2>4. /\ q \in FrameType /\ q.op = Top(t).op /\ q.call = Top(t).call /\ q.client = Top(t).client
          /\ q.rebind = Top(t).rebind /\ q.pc \in Carrying \ {"insert"}
      BY <1>2, <2>1, <2>3 DEF FrameType, Pcs, Carrying
    <2>5. StateFits' /\ cache' = cache /\ live' = live
      BY <1>3, <1>12 DEF RetryUid, StateFits
    <2> QED BY <1>5, <2>2, <2>3, <2>4, <2>5
  <1>13. CASE Timeout(t)
    <2>1. StateFits' /\ cache' = cache /\ live' = live /\ At(t, "wait")
      BY <1>3, <1>13 DEF Timeout, StateFits
    <2>2. CASE Goto(t, "xid")
      <3>1. PICK q : q = [Top(t) EXCEPT !.pc = "xid"]
        OBVIOUS
      <3>2. SetTop(t, q)
        BY <2>2, <3>1, Zenon DEF Goto
      <3>3. Active(t) /\ Top(t).pc \in Carrying
        BY <1>1, <2>1 DEF Carrying
      <3>4. /\ q \in FrameType /\ q.op = Top(t).op /\ q.call = Top(t).call /\ q.client = Top(t).client
            /\ q.rebind = Top(t).rebind /\ q.pc \in Carrying \ {"insert"}
        BY <1>2, <3>1, <3>3 DEF FrameType, Pcs, Carrying
      <3> QED BY <1>5, <2>1, <3>2, <3>3, <3>4
    <2>3. Again(t) \/ Goto(t, "xid")
      BY <1>13 DEF Timeout
    <2> QED BY <2>1, <2>2, <2>3, Failing DEF Carrying
  <1>14. CASE WrongServer(t)
    <2>1. StateFits' /\ cache' = cache /\ live' = live /\ At(t, "wait") /\ Again(t)
      BY <1>3, <1>14 DEF WrongServer, StateFits
    <2> QED BY <2>1, Failing DEF Carrying
  <1>15. CASE GiveUp(t)
    <2>1. StateFits' /\ cache' = cache /\ live' = live /\ At(t, "wait") /\ Fail(t, "free")
      BY <1>3, <1>15 DEF GiveUp, StateFits
    <2> QED BY <2>1, Failing DEF Carrying
  <1> QED BY <1>6, <1>7, <1>8, <1>9, <1>10, <1>11, <1>12, <1>13, <1>14, <1>15

LEMMA TopSet ==
    ASSUME Shape, NEW t \in Threads, Active(t), NEW q, SetTop(t, q), Fits(Top(t), q), StateFits'
    PROVE  Shape' /\ Replaced(t, Top(t), q)
  <1>1. PICK p : Replaced(t, p, q)
    BY SetTopped
  <1>2. p = Top(t)
    BY <1>1 DEF Replaced
  <1>3. StackOf(t)' /\ Others(t)
    BY <1>1, <1>2, SetFits DEF Replaced
  <1> QED BY <1>1, <1>2, <1>3, ShapeKept

(* A frame before it has a handle, and with one.                              *)
Given(p, l, h) == [p EXCEPT !.pc = l, !.client = h]
LEMMA TakeFits ==
    ASSUME NEW p \in FrameType, p.pc = "get", NEW h \in Handles, NEW l \in {"insert", "xid"},
           IsView(p) \/ IsAlbd(p), NEW q, q = Given(p, l, h)
    PROVE  Fits(p, q) /\ p.client = Null /\ q.client = h /\ q.pc = l
  BY RpcAssumption DEF Given, Fits, FrameType, IsView, IsAlbd, Pcs, Carrying, Binding

LEMMA SlotUpdated ==
    ASSUME Shape, NEW i \in Slots, NEW s \in SlotType
    PROVE  [cache EXCEPT ![i] = s] \in Seq(SlotType)
  <1>1. cache \in Seq(SlotType) /\ i \in 1 .. Len(cache)
    BY SlotTyped DEF Shape
  <1> QED BY <1>1, ExceptSeq

LEMMA GetCachedKeeps ==
    ASSUME HandleInv, NEW t \in Threads, ~InitFails, GetCached(t)
    PROVE  HandleInv'
  <1>1. Active(t) /\ Top(t).pc = "get"
    BY DEF GetCached, At, Active
  <1>2. PICK i \in Cached(t) :
           /\ cache' = [cache EXCEPT ![i].inuse = TRUE]
           /\ SetTop(t, [Top(t) EXCEPT !.pc = "xid", !.client = cache[i].client])
    BY Zenon DEF GetCached
  <1>3. i \in Slots /\ cache[i].client # Null /\ ~cache[i].inuse
    BY <1>2 DEF Cached, Slots, Unused
  <1>4. PICK h, q : h = cache[i].client /\ q = [Top(t) EXCEPT !.pc = "xid", !.client = cache[i].client]
    OBVIOUS
  <1>5. h \in Handles /\ cache[i] \in SlotType /\ Shape
    BY <1>3, <1>4, SlotTyped DEF HandleInv
  <1>6. SetTop(t, q)
    BY <1>2, <1>4, Zenon
  <1>7. Fits(Top(t), q) /\ Top(t).client = Null /\ q.client = h /\ q.pc = "xid"
    <2>1. q = Given(Top(t), "xid", h)
      BY <1>4 DEF Given
    <2>2. Top(t) \in FrameType /\ (IsView(Top(t)) \/ IsAlbd(Top(t)))
      BY <1>1, <1>5, TopFits
    <2> QED BY <1>1, <1>5, <2>1, <2>2, TakeFits
  <1>8. StateFits' /\ live' = live
    <2>1. [cache[i] EXCEPT !.inuse = TRUE] \in SlotType
      BY <1>5 DEF SlotType
    <2>2. cache' \in Seq(SlotType)
      BY <1>2, <1>3, <1>5, <2>1, SlotUpdated
    <2> QED BY <2>2 DEF GetCached, StateFits, HandleInv, Shape
  <1>9. Shape' /\ Replaced(t, Top(t), q)
    BY <1>1, <1>5, <1>6, <1>7, <1>8, TopSet
  <1>10. ~Has(t, h)
    <2>1. SlotTrue(i)
      BY <1>3 DEF HandleInv, OwnInv
    <2> QED BY <1>3, <1>4, <1>5, <2>1 DEF SlotTrue, Held
  <1>11. Takes(t, h) /\ ~At(t, "insert")'
    BY <1>5, <1>7, <1>9, <1>10, TakesTop DEF Replaced
  <1> QED BY <1>2, <1>3, <1>4, <1>5, <1>8, <1>9, <1>11, OwnTake DEF HandleInv

LEMMA CreateKeeps ==
    ASSUME HandleInv, NEW t \in Threads, Create(t)
    PROVE  HandleInv'
  <1>1. Active(t) /\ Top(t).pc = "get"
    BY DEF Create, At, Active
  <1>2. PICK h : h = CHOOSE g \in Handles : g \notin live
    OBVIOUS
  <1>3. h \in Handles /\ h \notin live
    BY <1>2 DEF Create, HandleInv, Shape
  <1>4. PICK q : q = [Top(t) EXCEPT !.pc = "insert", !.client = h]
    OBVIOUS
  <1>5. SetTop(t, q) /\ live' = live \cup {h} /\ cache' = cache
    BY <1>2, <1>4, Zenon DEF Create
  <1>6. Fits(Top(t), q) /\ Top(t).client = Null /\ q.client = h /\ q.pc = "insert"
    <2>1. Top(t) \in FrameType /\ (IsView(Top(t)) \/ IsAlbd(Top(t)))
      BY <1>1, TopFits DEF HandleInv
    <2>2. q = Given(Top(t), "insert", h)
      BY <1>4 DEF Given
    <2> QED BY <1>1, <1>3, <2>1, <2>2, TakeFits
  <1>7. StateFits'
    BY <1>3, <1>5 DEF Create, StateFits, HandleInv, Shape
  <1>8. Shape' /\ Replaced(t, Top(t), q)
    BY <1>1, <1>5, <1>6, <1>7, TopSet DEF HandleInv
  <1>9. ~Has(t, h)
    BY <1>3 DEF HandleInv, OwnInv, HeldLive
  <1>10. Takes(t, h) /\ Top(t)'.client = h
    BY <1>3, <1>6, <1>8, <1>9, TakesTop DEF Replaced
  <1> QED BY <1>3, <1>5, <1>8, <1>10, OwnCreate DEF HandleInv

LEMMA CreateFailKeeps ==
    ASSUME HandleInv, NEW t \in Threads, CreateFail(t)
    PROVE  HandleInv'
  <1>1. Active(t) /\ Top(t).pc = "get" /\ Return(t, TRUE) /\ cache' = cache /\ live' = live
    BY DEF CreateFail, At, Active
  <1>2. Top(t).client = Null
    BY <1>1, TopFits DEF HandleInv, IsView, IsAlbd, Carrying
  <1>3. /\ Others(t) /\ StackOf(t)' /\ ~At(t, "insert")' /\ Apart(t)'
        /\ \A g \in Handles : Has(t, g)' <=> (Has(t, g) /\ g # Top(t).client)
    BY <1>1, Returned DEF HandleInv
  <1>4. Keeps(t)
    BY <1>2, <1>3, RpcAssumption DEF Keeps
  <1>5. StateFits'
    BY DEF CreateFail, StateFits, HandleInv, Shape
  <1> QED BY <1>1, <1>3, <1>4, <1>5, ShapeKept, OwnQuiet DEF HandleInv

LEMMA InsertKeeps ==
    ASSUME HandleInv, NEW t \in Threads, Insert(t)
    PROVE  HandleInv'
  <1>1. Active(t) /\ Top(t).pc = "insert" /\ Top(t).pc \in Carrying
    BY DEF Insert, At, Active, Carrying
  <1>2. Top(t) \in FrameType /\ (IsView(Top(t)) \/ IsAlbd(Top(t)))
    BY <1>1, TopFits DEF HandleInv
  <1>3. PICK q : q = [Top(t) EXCEPT !.pc = "xid"]
    OBVIOUS
  <1>4. SetTop(t, q)
    BY <1>3, Zenon DEF Insert, Goto
  <1>5. /\ q \in FrameType /\ q.op = Top(t).op /\ q.call = Top(t).call /\ q.client = Top(t).client
        /\ q.rebind = Top(t).rebind /\ q.pc = "xid" /\ q.pc \in Carrying \ {"insert"}
    BY <1>2, <1>3 DEF FrameType, Pcs, Carrying
  <1>6. CASE UNCHANGED <<cache, family, live>>
    <2>1. StateFits'
      BY <1>6 DEF Insert, StateFits, HandleInv, Shape
    <2> QED BY <1>1, <1>4, <1>5, <1>6, <2>1, QuietMove
  <1>7. CASE \E i \in Replaceable :
               /\ cache' = [cache EXCEPT ![i] = [client |-> Top(t).client, inuse |-> TRUE,
                                                 proto |-> Proto(Top(t))]]
               /\ live' = live \ {cache[i].client}
    <2>1. PICK h, pr : h = Top(t).client /\ pr = Proto(Top(t))
      OBVIOUS
    <2>2. PICK i \in Replaceable : /\ cache' = [cache EXCEPT ![i] = [client |-> h, inuse |-> TRUE, proto |-> pr]]
                                   /\ live' = live \ {cache[i].client}
      BY <1>7, <2>1, Zenon
    <2>3. i \in Slots /\ (cache[i].client \notin Handles \/ ~cache[i].inuse)
      BY <2>2, RpcAssumption DEF Replaceable, Empty, Slots, Unused
    <2>4. h \in Handles /\ pr \in {"view", "albd"}
      BY <1>1, <1>2, <2>1 DEF FrameType, IsView, IsAlbd, Carrying, Proto
    <2>5. [client |-> h, inuse |-> TRUE, proto |-> pr] \in SlotType
      BY <2>4 DEF SlotType
    <2>6. StateFits'
      <3>1. cache' \in Seq(SlotType)
        BY <2>2, <2>3, <2>5, SlotUpdated DEF HandleInv
      <3> QED BY <2>2, <3>1 DEF Insert, StateFits, HandleInv, Shape
    <2>7. Fits(Top(t), q)
      BY <1>1, <1>5 DEF Fits, IsView, IsAlbd, Carrying, Binding
    <2>8. Shape' /\ Replaced(t, Top(t), q)
      BY <1>1, <1>4, <2>6, <2>7, TopSet DEF HandleInv
    <2>9. Keeps(t) /\ ~At(t, "insert")'
      BY <1>5, <2>8 DEF Replaced, Keeps, Has, Apart, HandleInv, OwnInv
    <2>10. At(t, "insert")
      BY DEF Insert
    <2> QED BY <2>1, <2>2, <2>3, <2>4, <2>8, <2>9, <2>10, OwnInsert DEF HandleInv
  <1> QED BY <1>6, <1>7, Zenon DEF Insert

LEMMA FreeKeeps ==
    ASSUME HandleInv, NEW t \in Threads, FreeHandle(t)
    PROVE  HandleInv'
  <1>1. Active(t) /\ Top(t).pc = "free"
    BY DEF FreeHandle, At, Active
  <1>2. Top(t) \in FrameType /\ (IsView(Top(t)) \/ IsAlbd(Top(t)))
    BY <1>1, TopFits DEF HandleInv
  <1>3. PICK h, err : h = Top(t).client /\ err = Top(t).err
    OBVIOUS
  <1>4. h \in Handles /\ err \in BOOLEAN
    BY <1>1, <1>2, <1>3 DEF FrameType, IsView, IsAlbd, Carrying
  <1>5. PICK mine : mine = {i \in DOMAIN cache : cache[i].client = h}
    OBVIOUS
  <1>6. /\ cache' = [i \in DOMAIN cache |-> IF i \in mine THEN SlotAfter(cache[i], err) ELSE cache[i]]
        /\ live' = IF mine = {} \/ err THEN live \ {h} ELSE live
        /\ Return(t, err)
    BY <1>3, <1>5, Zenon DEF FreeHandle
  <1>7. cache' = [i \in Slots |-> IF cache[i].client = h THEN SlotAfter(cache[i], err) ELSE cache[i]]
    <2>1. \A i \in Slots : i \in mine <=> cache[i].client = h
      BY <1>5 DEF Slots
    <2> QED BY <1>6, <2>1 DEF Slots
  <1>8. live' = IF ~InCache(h) \/ err THEN live \ {h} ELSE live
    <2>1. mine = {} <=> ~InCache(h)
      BY <1>5 DEF InCache, Slots
    <2> QED BY <1>6, <2>1
  <1>9. /\ Others(t) /\ StackOf(t)' /\ ~At(t, "insert")' /\ Apart(t)'
        /\ \A g \in Handles : Has(t, g)' <=> (Has(t, g) /\ g # h)
    BY <1>1, <1>3, <1>4, <1>6, Returned DEF HandleInv
  <1>10. Drops(t, h) /\ Has(t, h)
    BY <1>1, <1>3, <1>9, TopHas DEF Drops, HandleInv
  <1>11. StateFits'
    <2>1. \A s \in SlotType : SlotAfter(s, err) \in SlotType
      BY DEF SlotType, SlotAfter
    <2>2. PICK n \in Nat : n = Len(cache) /\ Slots = 1 .. n
      BY SlotTyped DEF HandleInv
    <2>3. \A i \in Slots : cache[i] \in SlotType
      BY SlotTyped DEF HandleInv
    <2>4. cache' \in [1 .. n -> SlotType]
      BY <1>7, <2>1, <2>2, <2>3
    <2>5. cache' \in Seq(SlotType)
      BY <2>4
    <2> QED BY <1>6, <2>5 DEF FreeHandle, StateFits, HandleInv, Shape
  <1> QED BY <1>4, <1>7, <1>8, <1>9, <1>10, <1>11, ShapeKept, OwnFree DEF HandleInv

LEMMA SetCachesKeeps ==
    ASSUME HandleInv, NEW n \in CacheSizes, SetCaches(n)
    PROVE  HandleInv'
  <1>1. n \in Nat /\ cache' = EmptyCache(n) /\ live' = live \ ToDestroy /\ stack' = stack
    BY RpcAssumption DEF SetCaches
  <1>2. OwnInv'
    BY <1>1, OwnClear DEF HandleInv
  <1>3. cache' \in Seq(SlotType)
    <2>1. EmptySlot \in SlotType
      BY DEF EmptySlot, SlotType
    <2>2. cache' \in [1 .. n -> SlotType]
      BY <1>1, <2>1 DEF EmptyCache
    <2> QED BY <1>1, <2>2
  <1>4. Shape'
    <2>1. \A t \in Threads : StackOf(t)'
      BY <1>1, Zenon DEF HandleInv, Shape, StackOf
    <2> QED BY <1>1, <1>3, <2>1 DEF SetCaches, HandleInv, Shape
  <1> QED BY <1>2, <1>4 DEF HandleInv

Made(o, l, c, h, x, b) ==
    [op |-> o, pc |-> l, call |-> c, client |-> h, xid |-> x,
     bt |-> x, rebind |-> b, ruid |-> FALSE, err |-> FALSE]

LEMMA AlbdFrame ==
    ASSUME NEW op \in {"albd", "albd70"}, NEW q, q = Frame(op, "get", 0)
    PROVE  q \in FrameType /\ IsAlbd(q) /\ q.client = Null /\ q.pc = "get"
  <1>1. ASSUME NEW o \in {"view", "albd", "albd70"}, NEW l \in Pcs, NEW c \in 0 .. MaxCalls,
               NEW h \in Handles \cup {Null}, NEW x \in Nat, NEW b \in BOOLEAN, NEW r,
               r = Made(o, l, c, h, x, b)
        PROVE  r \in FrameType /\ r.op = o /\ r.pc = l /\ r.client = h /\ r.rebind = b
    BY <1>1 DEF FrameType, Made
  <1>2. PICK b \in BOOLEAN : b <=> op = "view"
    OBVIOUS
  <1>3. /\ op \in {"view", "albd", "albd70"} /\ "get" \in Pcs /\ 0 \in 0 .. MaxCalls /\ 0 \in Nat
        /\ Null \in Handles \cup {Null} /\ ~b /\ op # "view"
    BY <1>2, RpcAssumption DEF Pcs
  <1>4. q = Made(op, "get", 0, Null, 0, b)
    BY <1>2 DEF Frame, Made
  <1>5. q \in FrameType /\ q.op = op /\ q.pc = "get" /\ q.client = Null /\ q.rebind = b
    BY <1>1, <1>3, <1>4
  <1> QED BY <1>3, <1>5 DEF IsAlbd, Carrying, Binding

LEMMA BindStartKeeps ==
    ASSUME HandleInv, NEW t \in Threads, BindStart(t)
    PROVE  HandleInv'
  <1>1. Active(t) /\ Top(t).pc \in Binding
    BY DEF BindStart, At, Active, Binding
  <1>2. PICK f : OneOf(t, f) /\ Shows(t, f, f, Null)
    <2>1. CASE \E f, g : TwoOf(t, f, g) /\ Shows(t, g, f, g.client)
      BY <1>1, <2>1 DEF TwoOf, Shows, IsAlbd
    <2> QED BY <1>1, <2>1, Frames1 DEF HandleInv
  <1>3. PICK g : g = Frame("albd", "get", 0)
    OBVIOUS
  <1>4. g \in FrameType /\ IsAlbd(g) /\ g.client = Null /\ g.pc = "get"
    BY <1>3, AlbdFrame
  <1>5. Others(t) /\ stack'[t] = <<g, f>>
    <2>1. stack' = [stack EXCEPT ![t] = <<g>> \o stack[t]]
      BY <1>3, Zenon DEF BindStart
    <2>2. <<g>> \o stack[t] = <<g, f>>
      BY <1>2, Joined, Zenon DEF OneOf
    <2>3. stack' = [stack EXCEPT ![t] = <<g, f>>]
      BY <2>1, <2>2, Zenon
    <2> QED BY <2>3, Pushes DEF Stacked, HandleInv
  <1>6. StackOf(t)'
    <2>1. f.pc \in Binding /\ f \in FrameType /\ IsView(f)
      BY <1>1, <1>2 DEF OneOf, Shows
    <2> QED BY <1>4, <1>5, <2>1, Zenon DEF StackOf
  <1>7. Shows(t, g, f, Null)'
    BY <1>4, <1>5, TwoFramesNext
  <1>8. Keeps(t) /\ ~At(t, "insert")'
    BY <1>2, <1>4, <1>5, <1>7 DEF Shows, Keeps, Has, Apart
  <1>9. StateFits' /\ cache' = cache /\ live' = live
    BY DEF BindStart, StateFits, HandleInv, Shape
  <1> QED BY <1>5, <1>6, <1>8, <1>9, ShapeKept, OwnQuiet DEF HandleInv

LEMMA AfterBindFits ==
    ASSUME NEW t, NEW f \in FrameType, IsView(f), f.pc \in Binding, NEW err \in BOOLEAN
    PROVE  \/ AfterBind(t, f, err) = <<>> /\ f.client = Null
           \/ \E q \in FrameType : /\ AfterBind(t, f, err) = <<q>> /\ IsView(q)
                                   /\ q.client = f.client /\ q.pc # "insert"
  <1>1. f.pc = "probe" \/ f.pc = "rebind"
    BY DEF Binding
  <1>2. CASE f.pc = "probe" /\ err
    <2>1. AfterBind(t, f, err) = <<>>
      BY <1>2, Zenon DEF AfterBind
    <2> QED BY <1>2, <2>1 DEF IsView, Carrying
  <1>3. CASE f.pc = "probe" /\ ~err
    <2>1. PICK q : q = [f EXCEPT !.pc = "get"]
      OBVIOUS
    <2>2. AfterBind(t, f, err) = <<q>>
      BY <1>3, <2>1 DEF AfterBind
    <2>3. q \in FrameType /\ IsView(q) /\ q.client = f.client /\ q.pc # "insert"
      BY <1>3, <2>1 DEF FrameType, IsView, Pcs, Carrying
    <2> QED BY <2>2, <2>3, Zenon
  <1>4. CASE f.pc = "rebind" /\ err /\ t \in Soft
    <2>1. PICK q : q = [f EXCEPT !.pc = "free", !.err = TRUE]
      OBVIOUS
    <2>2. AfterBind(t, f, err) = <<q>>
      BY <1>4, <2>1 DEF AfterBind
    <2>3. q \in FrameType /\ IsView(q) /\ q.client = f.client /\ q.pc # "insert"
      BY <1>4, <2>1 DEF FrameType, IsView, Pcs, Carrying
    <2> QED BY <2>2, <2>3, Zenon
  <1>5. CASE f.pc = "rebind" /\ ~(err /\ t \in Soft)
    <2>1. PICK q, b : b = RebindAgain(t) /\ q = [f EXCEPT !.pc = "again", !.ruid = FALSE, !.rebind = b]
      OBVIOUS
    <2>2. AfterBind(t, f, err) = <<q>>
      BY <1>5, <2>1 DEF AfterBind, RetryAt
    <2>3. b \in BOOLEAN
      BY <2>1 DEF RebindAgain
    <2>4. q \in FrameType /\ IsView(q) /\ q.client = f.client /\ q.pc # "insert"
      BY <1>5, <2>1, <2>3 DEF FrameType, IsView, Pcs, Carrying
    <2> QED BY <2>2, <2>4, Zenon
  <1> QED BY <1>1, <1>2, <1>3, <1>4, <1>5

LEMMA Resumed ==
    ASSUME HandleInv, NEW t \in Threads, NEW f \in FrameType, IsView(f), f.pc \in Binding, NEW err \in BOOLEAN,
           Of(t) = f.client, Aux(t) = Null, stack' = [stack EXCEPT ![t] = AfterBind(t, f, err)],
           StateFits', cache' = cache, live' = live
    PROVE  HandleInv'
  <1>1. PICK s : s = AfterBind(t, f, err)
    OBVIOUS
  <1>2. stack' = [stack EXCEPT ![t] = s]
    BY <1>1, Zenon
  <1>3. Others(t) /\ stack'[t] = s
    BY <1>2, Pushes DEF Stacked, HandleInv
  <1>4. \/ s = <<>> /\ f.client = Null
        \/ \E q \in FrameType : s = <<q>> /\ IsView(q) /\ q.client = f.client /\ q.pc # "insert"
    BY <1>1, AfterBindFits
  <1>5. StackOf(t)' /\ Of(t)' = Of(t) /\ Aux(t)' = Aux(t) /\ ~At(t, "insert")'
    <2>1. CASE s = <<>> /\ f.client = Null
      BY <1>3, <2>1, NoFrameNext DEF StackOf
    <2>2. CASE \E q \in FrameType : s = <<q>> /\ IsView(q) /\ q.client = f.client /\ q.pc # "insert"
      <3>1. PICK q \in FrameType : s = <<q>> /\ IsView(q) /\ q.client = f.client /\ q.pc # "insert"
        BY <2>2
      <3>2. stack'[t] = <<q>>
        BY <1>3, <3>1
      <3>3. Shows(t, q, q, Null)'
        BY <3>2, OneFrameNext
      <3>4. StackOf(t)'
        BY <3>1, <3>2, Zenon DEF StackOf
      <3> QED BY <3>1, <3>3, <3>4 DEF Shows
    <2> QED BY <1>4, <2>1, <2>2
  <1>6. Keeps(t)
    BY <1>3, <1>5 DEF Keeps, Has, Apart, HandleInv, OwnInv
  <1> QED BY <1>3, <1>5, <1>6, ShapeKept, OwnQuiet DEF HandleInv

LEMMA BindRefusedKeeps ==
    ASSUME HandleInv, NEW t \in Threads, BindRefused(t)
    PROVE  HandleInv'
  <1>1. Active(t) /\ Top(t).pc \in Binding
    BY DEF BindRefused, At, Active, Binding
  <1>2. PICK f : OneOf(t, f) /\ Shows(t, f, f, Null)
    <2>1. CASE \E f, g : TwoOf(t, f, g) /\ Shows(t, g, f, g.client)
      BY <1>1, <2>1 DEF TwoOf, Shows, IsAlbd
    <2> QED BY <1>1, <2>1, Frames1 DEF HandleInv
  <1>3. /\ f \in FrameType /\ IsView(f) /\ f.pc \in Binding /\ Of(t) = f.client /\ Aux(t) = Null
        /\ Top(t) = f
    BY <1>1, <1>2 DEF OneOf, Shows
  <1>4. stack' = [stack EXCEPT ![t] = AfterBind(t, f, TRUE)]
    BY <1>3, Zenon DEF BindRefused
  <1>5. StateFits' /\ cache' = cache /\ live' = live
    BY DEF BindRefused, StateFits, HandleInv, Shape
  <1> QED BY <1>3, <1>4, <1>5, Resumed

LEMMA AtEnd ==
    ASSUME HandleInv, NEW t \in Threads, At(t, "end")
    PROVE  \E f, g : /\ TwoOf(t, f, g) /\ Shows(t, g, f, Null) /\ g.client = Null
                     /\ stack[t][2] = f /\ Tail(stack[t]) = <<f>>
  <1>1. Active(t) /\ Top(t).pc = "end"
    BY DEF At, Active
  <1>2. PICK f, g : TwoOf(t, f, g) /\ Shows(t, g, f, g.client)
    <2>1. CASE \E f : OneOf(t, f) /\ Shows(t, f, f, Null)
      BY <1>1, <2>1 DEF OneOf, Shows, IsView
    <2> QED BY <1>1, <2>1, Frames1 DEF HandleInv
  <1>3. g.client = Null
    BY <1>1, <1>2 DEF TwoOf, Shows, IsAlbd, Carrying
  <1>4. stack[t][2] = f /\ Tail(stack[t]) = <<f>>
    BY <1>2, TwoFrames DEF TwoOf
  <1> QED BY <1>2, <1>3, <1>4, Zenon

LEMMA BindEndKeeps ==
    ASSUME HandleInv, NEW t \in Threads, BindEnd(t)
    PROVE  HandleInv'
  <1>1. PICK f, g : /\ TwoOf(t, f, g) /\ Shows(t, g, f, Null) /\ g.client = Null
                    /\ stack[t][2] = f /\ Tail(stack[t]) = <<f>>
    BY AtEnd DEF BindEnd
  <1>2. f \in FrameType /\ IsView(f) /\ f.pc \in Binding /\ Of(t) = f.client /\ Aux(t) = Null
    BY <1>1 DEF TwoOf, Shows
  <1>3. stack' = [stack EXCEPT ![t] = AfterBind(t, f, FALSE)]
    BY <1>1, Zenon DEF BindEnd
  <1>4. StateFits' /\ cache' = cache /\ live' = live
    BY DEF BindEnd, StateFits, HandleInv, Shape
  <1> QED BY <1>2, <1>3, <1>4, Resumed

LEMMA BindFailKeeps ==
    ASSUME HandleInv, NEW t \in Threads, BindFail(t)
    PROVE  HandleInv'
  <1>1. PICK f, g : /\ TwoOf(t, f, g) /\ Shows(t, g, f, Null) /\ g.client = Null
                    /\ stack[t][2] = f /\ Tail(stack[t]) = <<f>>
    BY AtEnd DEF BindFail
  <1>2. /\ f \in FrameType /\ IsView(f) /\ f.pc \in Binding /\ Of(t) = f.client /\ Aux(t) = Null
        /\ Top(t) = g
    BY <1>1 DEF TwoOf, Shows
  <1>3. StateFits' /\ cache' = cache /\ live' = live
    BY DEF BindFail, StateFits, HandleInv, Shape
  <1>4. CASE g.op # "albd"
    <2>1. stack' = [stack EXCEPT ![t] = AfterBind(t, f, TRUE)]
      BY <1>1, <1>2, <1>4, Zenon DEF BindFail
    <2> QED BY <1>2, <1>3, <2>1, Resumed
  <1>5. CASE g.op = "albd"
    <2>1. PICK q : q = Frame("albd70", "get", 0)
      OBVIOUS
    <2>2. q \in FrameType /\ IsAlbd(q) /\ q.client = Null /\ q.pc = "get"
      BY <2>1, AlbdFrame
    <2>3. Others(t) /\ stack'[t] = <<q, f>>
      <3>1. stack' = [stack EXCEPT ![t] = <<q>> \o Tail(stack[t])]
        BY <1>2, <1>5, <2>1, Zenon DEF BindFail
      <3>2. <<q>> \o Tail(stack[t]) = <<q, f>>
        BY <1>1, Joined, Zenon
      <3>3. stack' = [stack EXCEPT ![t] = <<q, f>>]
        BY <3>1, <3>2, Zenon
      <3> QED BY <3>3, Pushes DEF Stacked, HandleInv
    <2>4. StackOf(t)'
      BY <1>2, <2>2, <2>3, Zenon DEF StackOf
    <2>5. Shows(t, q, f, Null)'
      BY <2>2, <2>3, TwoFramesNext
    <2>6. Keeps(t) /\ ~At(t, "insert")'
      BY <1>1, <2>2, <2>3, <2>5 DEF Shows, Keeps, Has, Apart, HandleInv, OwnInv
    <2> QED BY <1>3, <2>3, <2>4, <2>6, ShapeKept, OwnQuiet DEF HandleInv
  <1> QED BY <1>4, <1>5
-----------------------------------------------------------------------------
(* The invariant of the handles.                                              *)
LEMMA HandleInit ==
    ASSUME Init
    PROVE  HandleInv
  <1>1. cache = EmptyCache(InitCacheSize) /\ InitCacheSize \in Nat
    BY RpcAssumption DEF Init
  <1>2. cache \in Seq(SlotType)
    <2>1. EmptySlot \in SlotType
      BY DEF EmptySlot, SlotType
    <2>2. cache \in [1 .. InitCacheSize -> SlotType]
      BY <1>1, <2>1 DEF EmptyCache
    <2> QED BY <1>1, <2>2
  <1>3. \A j \in Slots : cache[j].client = Null
    BY <1>1, Zenon DEF Slots, EmptyCache, EmptySlot
  <1>4. DOMAIN stack = Threads /\ \A t \in Threads : stack[t] = <<>>
    BY DEF Init
  <1>5. Shape
    <2>1. mvfs_xid \in Nat /\ mvfs_boottime \in Nat /\ live \subseteq Handles
      BY DEF Init
    <2>2. calls \in 0 .. MaxCalls
      <3>1. calls = 0
        BY DEF Init
      <3> QED BY <3>1, RpcAssumption
    <2>3. \A t \in Threads : StackOf(t)
      <3> SUFFICES ASSUME NEW t \in Threads
                   PROVE  stack[t] = <<>>
        BY DEF StackOf
      <3> QED BY <1>4
    <2> QED BY <1>2, <1>4, <2>1, <2>2, <2>3, Zenon DEF Shape
  <1>6. \A t \in Threads : \A h \in Handles : ~Has(t, h)
    BY <1>4, NoFrame, RpcAssumption DEF Has
  <1>7. \A t \in Threads : Apart(t) /\ NewUncached(t)
    BY <1>4, NoFrame DEF Apart, NewUncached
  <1>8. HeldLive /\ HeldOnce /\ NoneLost
    BY <1>6 DEF Init, HeldLive, HeldOnce, NoneLost
  <1>9. \A i, j \in Slots : SlotTrue(i) /\ SlotOnce(i, j)
    BY <1>3, RpcAssumption DEF SlotTrue, SlotOnce
  <1> QED BY <1>5, <1>7, <1>8, <1>9, Zenon DEF HandleInv, OwnInv

LEMMA HandleStutter ==
    ASSUME HandleInv, UNCHANGED drv
    PROVE  HandleInv'
  <1>1. /\ mvfs_xid' = mvfs_xid /\ mvfs_boottime' = mvfs_boottime /\ cache' = cache /\ live' = live
        /\ stack' = stack /\ calls' = calls
    BY DEF drv
  <1>2. Shape'
    <2>1. \A t \in Threads : StackOf(t)'
      BY <1>1, Zenon DEF HandleInv, Shape, StackOf
    <2> QED BY <1>1, <2>1 DEF HandleInv, Shape
  <1>3. /\ \A u \in Threads : \A g \in Handles : Has(u, g)' <=> Has(u, g)
        /\ \A g \in Handles : (Held(g)' <=> Held(g)) /\ (InCache(g)' <=> InCache(g))
        /\ \A u \in Threads : (Apart(u)' <=> Apart(u)) /\ (NewUncached(u)' <=> NewUncached(u))
        /\ Slots' = Slots
    BY <1>1, Zenon DEF Has, Held, Apart, Of, Aux, Bottom, InCache, Slots, NewUncached, At, Top
  <1>4. HeldLive' /\ HeldOnce' /\ NoneLost'
    BY <1>1, <1>3 DEF HandleInv, OwnInv, HeldLive, HeldOnce, NoneLost, Shape
  <1>5. \A i, j \in Slots : SlotTrue(i)' /\ SlotOnce(i, j)'
    BY <1>1, <1>3 DEF HandleInv, OwnInv, SlotTrue, SlotOnce
  <1> QED BY <1>2, <1>3, <1>4, <1>5 DEF HandleInv, OwnInv

LEMMA HandleNext ==
    ASSUME HandleInv, ~InitFails, [Next]_vars
    PROVE  HandleInv'
  <1>1. ASSUME NEW t \in Threads, CallStart(t) \/ Run(t)
        PROVE  HandleInv'
    <2>1. CASE CallStart(t)
      BY <2>1, Starts
    <2>2. CASE GetCached(t)
      BY <2>2, GetCachedKeeps
    <2>3. CASE Create(t)
      BY <2>3, CreateKeeps
    <2>4. CASE CreateFail(t)
      BY <2>4, CreateFailKeeps
    <2>5. CASE Insert(t)
      BY <2>5, InsertKeeps
    <2>6. CASE FreeHandle(t)
      BY <2>6, FreeKeeps
    <2>7. CASE \/ AllocXid(t) \/ WrapBoottime(t) \/ WrapXid(t) \/ Send(t) \/ Unbound(t)
               \/ Reply(t) \/ RetryUid(t) \/ Timeout(t) \/ WrongServer(t) \/ GiveUp(t)
      BY <2>7, Moves
    <2>8. CASE BindStart(t)
      BY <2>8, BindStartKeeps
    <2>9. CASE BindRefused(t)
      BY <2>9, BindRefusedKeeps
    <2>10. CASE BindEnd(t)
      BY <2>10, BindEndKeeps
    <2>11. CASE BindFail(t)
      BY <2>11, BindFailKeeps
    <2>12. CASE ReinitFail(t)
      BY <2>12 DEF ReinitFail
    <2> QED BY <1>1, <2>1, <2>2, <2>3, <2>4, <2>5, <2>6, <2>7, <2>8, <2>9, <2>10, <2>11, <2>12, Zenon DEF Run
  <1>2. ASSUME NEW n \in CacheSizes, SetCaches(n)
        PROVE  HandleInv'
    BY <1>2, SetCachesKeeps
  <1>3. ASSUME NEW m \in net, Deliver(m)
        PROVE  HandleInv'
    BY <1>3, HandleStutter DEF Deliver
  <1>4. CASE Restart
    BY <1>4, HandleStutter DEF Restart
  <1>5. CASE UNCHANGED vars
    BY <1>5, HandleStutter DEF vars
  <1> QED BY <1>1, <1>2, <1>3, <1>4, <1>5, Zenon DEF Next

LEMMA ShortStack ==
    ASSUME Shape, NEW t \in Threads
    PROVE  Len(stack[t]) <= 2
  <1>1. CASE stack[t] = <<>>
    <2>1. Len(stack[t]) = 0
      BY <1>1
    <2> QED BY <2>1
  <1>2. CASE \E f : OneOf(t, f) /\ Shows(t, f, f, Null)
    <2>1. Len(stack[t]) = 1
      BY <1>2, OneFrame DEF OneOf
    <2> QED BY <2>1
  <1>3. CASE \E f, g : TwoOf(t, f, g) /\ Shows(t, g, f, g.client)
    <2>1. Len(stack[t]) = 2
      BY <1>3, TwoFrames DEF TwoOf
    <2> QED BY <2>1
  <1> QED BY <1>1, <1>2, <1>3, Frames1 DEF Active

LEMMA HoldsHas ==
    ASSUME HandleInv, NEW t \in Threads, NEW h \in Handles
    PROVE  /\ Holds(<<t, 1>>, h) \/ Holds(<<t, 2>>, h) <=> Has(t, h)
           /\ ~(Holds(<<t, 1>>, h) /\ Holds(<<t, 2>>, h))
  <1>1. /\ Holds(<<t, 1>>, h) <=> 1 <= Len(stack[t]) /\ stack[t][1].client = h
        /\ Holds(<<t, 2>>, h) <=> 2 <= Len(stack[t]) /\ stack[t][2].client = h
    BY DEF Holds
  <1>2. h # Null
    BY RpcAssumption
  <1>3. CASE stack[t] = <<>>
    <2>1. Len(stack[t]) = 0
      BY <1>3
    <2> QED BY <1>1, <1>2, <1>3, <2>1, NoFrame DEF Has
  <1>4. CASE \E f : OneOf(t, f) /\ Shows(t, f, f, Null)
    <2>1. PICK f : OneOf(t, f) /\ Shows(t, f, f, Null)
      BY <1>4
    <2>2. Len(stack[t]) = 1 /\ Of(t) = f.client /\ Aux(t) = Null
      BY <2>1, OneFrame DEF OneOf, Shows
    <2>3. stack[t][1] = f
      BY <2>1 DEF OneOf
    <2> QED BY <1>1, <1>2, <2>2, <2>3 DEF Has
  <1>5. CASE \E f, g : TwoOf(t, f, g) /\ Shows(t, g, f, g.client)
    <2>1. PICK f, g : TwoOf(t, f, g) /\ Shows(t, g, f, g.client)
      BY <1>5
    <2>2. Len(stack[t]) = 2 /\ Of(t) = f.client /\ Aux(t) = g.client
      BY <2>1, TwoFrames DEF TwoOf, Shows
    <2>3. stack[t][1] = g /\ stack[t][2] = f
      BY <2>1 DEF TwoOf
    <2>4. Apart(t)
      BY DEF HandleInv, OwnInv
    <2> QED BY <1>1, <1>2, <2>2, <2>3, <2>4 DEF Has, Apart
  <1> QED BY <1>3, <1>4, <1>5, Frames1 DEF HandleInv, Active

LEMMA AtMostOne ==
    ASSUME NEW S, \A a, b \in S : a = b
    PROVE  Cardinality(S) <= 1
  <1>1. CASE S = {}
    BY <1>1, FS_EmptySet
  <1>2. CASE S # {}
    <2>1. PICK a : S = {a}
      BY <1>2
    <2> QED BY <2>1, FS_Singleton
  <1> QED BY <1>1, <1>2

LEMMA HandlesFollow ==
    ASSUME HandleInv
    PROVE  HandlesSound
  <1>1. \A f \in Frames : \E t \in Threads : f = <<t, 1>> \/ f = <<t, 2>>
    BY DEF Frames
  <1>2. \A t \in Threads : <<t, 1>> \in Frames /\ <<t, 2>> \in Frames
    BY DEF Frames
  <1>3. \A h \in Handles : (\E f \in Frames : Holds(f, h)) <=> Held(h)
    BY <1>1, <1>2, HoldsHas DEF Held
  <1>4. TypeOK
    <2>1. \A t \in Threads : Len(stack[t]) <= 2
      BY ShortStack DEF HandleInv
    <2>2. \A i \in DOMAIN cache : cache[i].client \in Handles \cup {Null}
      BY SlotTyped DEF HandleInv, Slots
    <2> QED BY <2>1, <2>2 DEF TypeOK, HandleInv, Shape
  <1>5. HandleExclusive
    <2> SUFFICES ASSUME NEW h \in Handles
                 PROVE  /\ Cardinality({f \in Frames : Holds(f, h)}) <= 1
                        /\ \A f \in Frames : Holds(f, h) => h \in live
      BY DEF HandleExclusive
    <2>2. Cardinality({f \in Frames : Holds(f, h)}) <= 1
      <3>1. ASSUME NEW f \in Frames, NEW g \in Frames, Holds(f, h), Holds(g, h)
            PROVE  f = g
        <4>1. PICK t \in Threads : f = <<t, 1>> \/ f = <<t, 2>>
          BY <1>1
        <4>2. PICK u \in Threads : g = <<u, 1>> \/ g = <<u, 2>>
          BY <1>1
        <4>3. Has(t, h) /\ Has(u, h)
          BY <3>1, <4>1, <4>2, HoldsHas
        <4>4. t = u
          BY <4>3 DEF HandleInv, OwnInv, HeldOnce
        <4> QED BY <3>1, <4>1, <4>2, <4>4, HoldsHas
      <3> QED BY <3>1, AtMostOne
    <2>3. \A f \in Frames : Holds(f, h) => h \in live
      BY <1>3 DEF HandleInv, OwnInv, HeldLive, Held
    <2> QED BY <2>2, <2>3
  <1>6. NoHandleLost
    BY <1>3 DEF NoHandleLost, HandleInv, OwnInv, NoneLost, InCache, Slots, Shape
  <1>7. InUseIsHeld
    <2> SUFFICES ASSUME NEW i \in DOMAIN cache, cache[i].client # Null
                 PROVE  cache[i].inuse <=> \E f \in Frames : Holds(f, cache[i].client)
      BY DEF InUseIsHeld
    <2>3. PICK h : h = cache[i].client
      OBVIOUS
    <2>4. h \in Handles
      BY <2>3, SlotTyped DEF HandleInv, Slots
    <2>5. SlotTrue(i)
      BY DEF HandleInv, OwnInv, Slots
    <2> QED BY <1>3, <2>3, <2>4, <2>5 DEF SlotTrue
  <1> QED BY <1>4, <1>5, <1>6, <1>7 DEF HandlesSound

THEOREM HandleInvariant == ~InitFails => (Spec => []HandleInv)
  <1>1. Init => HandleInv
    BY HandleInit
  <1>2. ~InitFails /\ HandleInv /\ [Next]_vars => HandleInv'
    BY HandleNext
  <1>3. CASE InitFails
    BY <1>3
  <1>4. CASE ~InitFails
    <2>1. HandleInv /\ [Next]_vars => HandleInv'
      BY <1>2, <1>4
    <2>2. Spec => []HandleInv
      BY <1>1, <2>1, PTL DEF Spec
    <2> QED BY <2>2
  <1> QED BY <1>3, <1>4

(* A client handle serves one call at a time and is not destroyed under it,   *)
(* no handle is lost, and the ones marked in use are those that calls have,   *)
(* whatever calls, failures and changes of the cache size run at once, as     *)
(* long as MDKI_CLNTKUDP_INIT does not fail: mvfs_clnt_get and mvfs_vwcall    *)
(* return its error without giving the handle back.                           *)
THEOREM HandlesAreSound == ~InitFails => (Spec => []HandlesSound)
  <1>1. HandleInv => HandlesSound
    BY HandlesFollow
  <1> QED BY <1>1, HandleInvariant, PTL
=============================================================================
