----------------------------- MODULE AuditProofs -----------------------------
(* Auditing, for every number of tasks, audit files and records: references   *)
(* to audit files are exact, no accepted record is lost in silence, and the   *)
(* calls that promise the records on disk keep the promise, provided a file   *)
(* is set again only while somebody keeps it (AnyReuse is false).             *)
EXTENDS Audit, FiniteSetTheorems, SequenceTheorems, TLAPS

AfpType == [live : BOOLEAN, refcnt : Nat, destroy : BOOLEAN, obsolete : BOOLEAN,
            file : Files \cup {Null}, buf : Seq(Objs \cup {"MARKER"}),
            werr : BOOLEAN, made : Nat, out : Nat]
ProcType == [known : BOOLEAN, afp : Afps \cup {Null}, on : BOOLEAN]
ThrType == [active : BOOLEAN, afp : Afps \cup {Null}, on : BOOLEAN]

OnAfp == {"rele", "destroy", "take"}
OnRec == {"audit", "append"}
Plain == StepNames \ (OnAfp \cup OnRec \cup {"get", "purge"})
Steps == [do : OnAfp, x : Afps] \cup [do : OnRec, x : Objs \cup {"MARKER"}]
         \cup [do : {"get"}, x : Files] \cup [do : {"purge"}, x : SUBSET Tasks]
         \cup [do : Plain, x : {Null}]

Shape ==
    /\ afp \in [Afps -> AfpType] /\ aflock \in Tasks \cup {Null} /\ alive \subseteq Tasks
    /\ proc \in [Tasks -> ProcType] /\ thr \in [Tasks -> ThrType]
    /\ todo \in [Tasks -> Seq(Steps)]
    /\ mark \in [Tasks -> Nat] /\ used \subseteq Files /\ ops \in 0 .. MaxOps

-----------------------------------------------------------------------------
(* What may come before a step in the list of a task.                         *)
Purging == {"rele", "destroy", "purge"}
Before(p, q) ==
    \/ q = "snapshot" /\ p = "new"
    \/ q = "purge" /\ p \in {"rele", "destroy", "new", "snapshot"}
    \/ q = "leave" /\ p \in Purging \cup {"new", "snapshot"}
    \/ q \in {"start", "write"} /\ p \in Purging
    \/ q \in {"reap", "audit"} /\ p \in Purging \cup {"write"}
    \/ q = "obsolete" /\ p \in Purging \cup {"write", "reap"}
    \/ q = "relethr" /\ p \in Purging \cup {"write", "reap", "obsolete"}
    \/ q = "get" /\ p \in Purging \cup {"relethr"}
    \/ q = "off" /\ p \in Purging \cup {"write", "reap", "obsolete", "relethr"}
    \/ q = "hold" /\ p \in Purging \cup {"write", "reap", "obsolete", "relethr", "off", "get", "take"}
    \/ q = "swap" /\ p \in Purging \cup {"write", "reap", "obsolete", "relethr", "off", "get", "take", "hold"}
    \/ q = "markerwrite" /\ p \in Purging \cup {"audit", "append", "write", "relethr", "off", "hold", "swap"}

Ordered(s) == \A i, j \in 1 .. Len(s) : j < i => Before(s[j].do, s[i].do)

(* A reference is taken just before it is exchanged, and the buffer is        *)
(* written just before its error is reaped.                                   *)
Paired(s) == \A i \in 1 .. Len(s) :
    /\ s[i].do = "swap" /\ i # 1 => s[i - 1].do = "hold"
    /\ s[i].do = "hold" => i # Len(s) /\ s[i + 1].do = "swap"
    /\ s[i].do = "reap" /\ i # 1 => s[i - 1].do = "write"

Has(t, name) == \E i \in 1 .. Len(todo[t]) : todo[t][i].do = name
Getting(t, f) == \E i \in 1 .. Len(todo[t]) : todo[t][i] = Do("get", f)

(* What a task has, by what it still has to do.                               *)
TaskInv(t) ==
    /\ Ordered(todo[t]) /\ Paired(todo[t])
    /\ todo[t] # <<>> \/ thr[t].active => t \in alive
    /\ ~thr[t].active => \A q \in StepNames : Has(t, q) => q = "destroy"
    /\ ~thr[t].active \/ Has(t, "new") \/ Has(t, "snapshot") => thr[t].afp = Null
    /\ (Has(t, "get") /\ ~Has(t, "relethr")) \/ At(t, "take") => thr[t].afp = Null
    /\ Has(t, "write") \/ Has(t, "reap") \/ Has(t, "obsolete") \/ At(t, "append") => thr[t].afp # Null
    /\ thr[t].active => At(t, "new") \/ proc[t].known
    /\ ~proc[t].known => proc[t].afp = Null
    /\ Has(t, "new") => ~proc[t].known
    /\ Has(t, "reap") \/ Has(t, "markerwrite") =>
          (thr[t].afp # Null => mark[t] <= afp[thr[t].afp].made)
    /\ At(t, "reap") => (~afp[thr[t].afp].werr => mark[t] <= afp[thr[t].afp].out)

(* A keeper never gives up what it has.                                       *)
KeeperInv(k) ==
    /\ k \in alive
    /\ Has(k, "hold") \/ Has(k, "swap") => proc[k].afp = Null
    /\ ~Has(k, "audit") /\ ~At(k, "append")

(* A file that is about to be looked for is kept by somebody, or nobody has   *)
(* a structure for it; a structure that was found is kept by somebody.        *)
Fresh(t, f) ==
    /\ \A a \in Afps : afp[a].live => afp[a].file # f
    /\ \A u \in Tasks : Getting(u, f) => u = t
Keeping(f) == \E k \in Keepers : proc[k].afp # Null /\ afp[proc[k].afp].file = f
FindInv(t) ==
    /\ \A f \in Files : Getting(t, f) => f \in used /\ (Keeping(f) \/ Fresh(t, f))
    /\ At(t, "take") => \E k \in Keepers : proc[k].afp = Arg(t)

-----------------------------------------------------------------------------
(* The references to an audit file.                                           *)
ByThr(a) == {t \in Tasks : thr[t].afp = a}
ByProc(a) == {t \in Tasks : proc[t].afp = a}
ByHold(a) == {t \in Tasks : At(t, "swap") /\ thr[t].afp = a}
ByRele(a) == {t \in Tasks : At(t, "rele") /\ Arg(t) = a}
RefCount(a) == Cardinality(ByThr(a)) + Cardinality(ByProc(a)) + Cardinality(ByHold(a))
               + Cardinality(ByRele(a))

Destroying(t, a) == At(t, "destroy") /\ Arg(t) = a

AfpInv(a) ==
    /\ afp[a].live /\ ~afp[a].destroy => afp[a].refcnt # 0 /\ afp[a].refcnt = RefCount(a)
    /\ ~afp[a].live \/ afp[a].destroy => RefCount(a) = 0
    /\ ~afp[a].live => afp[a] = Unused
    /\ afp[a].live => afp[a].file \in used
    /\ afp[a].destroy => \E t \in Tasks : Destroying(t, a)
    /\ \A t \in Tasks : Destroying(t, a) => afp[a].destroy
    /\ \A t, u \in Tasks : Destroying(t, a) /\ Destroying(u, a) => t = u
    /\ afp[a].live /\ ~afp[a].werr => afp[a].made = afp[a].out + Len(afp[a].buf)
    /\ afp[a].destroy => afp[a].buf = <<>>

OneAfp == \A a, b \in Afps :
    /\ afp[a].live /\ ~afp[a].destroy /\ afp[b].live /\ ~afp[b].destroy
    /\ afp[a].file = afp[b].file
    => a = b

AuditInv ==
    /\ Shape
    /\ \A t \in Tasks : TaskInv(t)
    /\ \A k \in Keepers : KeeperInv(k)
    /\ \A t \in Tasks : FindInv(t)
    /\ \A a \in Afps : AfpInv(a)
    /\ OneAfp

-----------------------------------------------------------------------------
(* Lists of steps: the first is replaced by the steps it calls for.           *)
LEMMA StepFields ==
    ASSUME NEW s \in Steps
    PROVE  s.do \in StepNames
  BY DEF Steps, OnAfp, OnRec, Plain, StepNames

LEMMA Splice ==
    ASSUME NEW s \in Seq(Steps), s # <<>>, NEW add \in Seq(Steps)
    PROVE  /\ add \o Tail(s) \in Seq(Steps)
           /\ Len(s) \in Nat /\ Len(s) # 0 /\ Len(add) \in Nat
           /\ Len(add \o Tail(s)) = Len(add) + Len(s) - 1
           /\ \A i \in 1 .. Len(add \o Tail(s)) :
                 (add \o Tail(s))[i] = IF i <= Len(add) THEN add[i] ELSE s[i - Len(add) + 1]
           /\ Head(s) = s[1]
  <1>1. /\ Tail(s) \in Seq(Steps) /\ Len(Tail(s)) = Len(s) - 1
        /\ \A i \in 1 .. Len(Tail(s)) : Tail(s)[i] = s[i + 1]
        /\ Len(s) \in Nat /\ Len(s) # 0
    BY HeadTailProperties
  <1>2. /\ add \o Tail(s) \in Seq(Steps) /\ Len(add \o Tail(s)) = Len(add) + Len(Tail(s))
        /\ \A i \in 1 .. Len(add) + Len(Tail(s)) :
              (add \o Tail(s))[i] = IF i <= Len(add) THEN add[i] ELSE Tail(s)[i - Len(add)]
    BY <1>1, ConcatProperties
  <1>3. Len(add) \in Nat /\ Head(s) = s[1]
    BY DEF Head
  <1>4. ASSUME NEW i \in 1 .. Len(add \o Tail(s))
        PROVE  (add \o Tail(s))[i] = IF i <= Len(add) THEN add[i] ELSE s[i - Len(add) + 1]
    <2>1. CASE i <= Len(add)
      BY <1>1, <1>2, <1>3, <2>1
    <2>2. CASE ~(i <= Len(add))
      <3>1. i - Len(add) \in 1 .. Len(Tail(s))
        BY <1>1, <1>2, <1>3, <2>2
      <3> QED BY <1>1, <1>2, <1>3, <2>2, <3>1
    <2> QED BY <2>1, <2>2
  <1> QED BY <1>1, <1>2, <1>3, <1>4

(* A list stays in order when the new steps are in order and what may follow  *)
(* the old step may follow each of them.                                      *)
LEMMA OrderedSplice ==
    ASSUME NEW s \in Seq(Steps), s # <<>>, NEW add \in Seq(Steps), Ordered(s), Ordered(add),
           \A j \in 1 .. Len(add) : \A q \in StepNames : Before(s[1].do, q) => Before(add[j].do, q)
    PROVE  Ordered(add \o Tail(s))
  <1> DEFINE r == add \o Tail(s)
  <1>1. /\ r \in Seq(Steps) /\ Len(s) \in Nat /\ Len(s) # 0 /\ Len(add) \in Nat
        /\ Len(r) = Len(add) + Len(s) - 1
        /\ \A i \in 1 .. Len(r) : r[i] = IF i <= Len(add) THEN add[i] ELSE s[i - Len(add) + 1]
    BY Splice
  <1> HIDE DEF r
  <1> SUFFICES ASSUME NEW i \in 1 .. Len(r), NEW j \in 1 .. Len(r), j < i
               PROVE  Before(r[j].do, r[i].do)
    BY DEF Ordered, r
  <1>2. CASE i <= Len(add)
    <2>1. i \in 1 .. Len(add) /\ j \in 1 .. Len(add) /\ r[i] = add[i] /\ r[j] = add[j]
      BY <1>1, <1>2
    <2> QED BY <2>1 DEF Ordered
  <1>3. CASE ~(i <= Len(add)) /\ j <= Len(add)
    <2>1. j \in 1 .. Len(add) /\ r[j] = add[j]
      BY <1>1, <1>3
    <2>2. i - Len(add) + 1 \in 2 .. Len(s) /\ r[i] = s[i - Len(add) + 1]
      BY <1>1, <1>3
    <2>3. 1 \in 1 .. Len(s) /\ i - Len(add) + 1 \in 1 .. Len(s) /\ 1 < i - Len(add) + 1
      BY <1>1, <2>2
    <2>4. Before(s[1].do, r[i].do)
      BY <2>2, <2>3 DEF Ordered
    <2>5. r[i].do \in StepNames
      <3>1. r[i] \in Steps
        BY <1>1
      <3> QED BY <3>1, StepFields
    <2> QED BY <2>1, <2>4, <2>5
  <1>4. CASE ~(i <= Len(add)) /\ ~(j <= Len(add))
    <2>1. /\ i - Len(add) + 1 \in 1 .. Len(s) /\ r[i] = s[i - Len(add) + 1]
          /\ j - Len(add) + 1 \in 1 .. Len(s) /\ r[j] = s[j - Len(add) + 1]
          /\ j - Len(add) + 1 < i - Len(add) + 1
      BY <1>1, <1>4
    <2> QED BY <2>1 DEF Ordered
  <1> QED BY <1>1, <1>2, <1>3, <1>4

LEMMA PairedSplice ==
    ASSUME NEW s \in Seq(Steps), s # <<>>, NEW add \in Seq(Steps), Paired(s), Paired(add),
           add = <<>> \/ s[1].do \notin {"hold", "write"}
    PROVE  Paired(add \o Tail(s))
  <1> DEFINE r == add \o Tail(s)
  <1>1. /\ r \in Seq(Steps) /\ Len(s) \in Nat /\ Len(s) # 0 /\ Len(add) \in Nat
        /\ Len(r) = Len(add) + Len(s) - 1
        /\ \A i \in 1 .. Len(r) : r[i] = IF i <= Len(add) THEN add[i] ELSE s[i - Len(add) + 1]
    BY Splice
  <1>0. Len(add) = 0 => add = <<>>
    BY EmptySeq
  <1> HIDE DEF r
  <1> SUFFICES ASSUME NEW i \in 1 .. Len(r)
               PROVE  /\ r[i].do = "swap" /\ i # 1 => r[i - 1].do = "hold"
                      /\ r[i].do = "hold" => i # Len(r) /\ r[i + 1].do = "swap"
                      /\ r[i].do = "reap" /\ i # 1 => r[i - 1].do = "write"
    BY DEF Paired, r
  <1>2. CASE i <= Len(add)
    <2>1. i \in 1 .. Len(add) /\ r[i] = add[i]
      BY <1>1, <1>2
    <2>2. /\ add[i].do = "swap" /\ i # 1 => add[i - 1].do = "hold"
          /\ add[i].do = "hold" => i # Len(add) /\ add[i + 1].do = "swap"
          /\ add[i].do = "reap" /\ i # 1 => add[i - 1].do = "write"
      BY <2>1 DEF Paired
    <2>3. i # 1 => i - 1 \in 1 .. Len(r) /\ r[i - 1] = add[i - 1]
      <3>1. i # 1 => i - 1 \in 1 .. Len(r) /\ i - 1 <= Len(add)
        BY <1>1, <2>1
      <3> QED BY <1>1, <3>1
    <2>4. i # Len(add) => i # Len(r) /\ i + 1 \in 1 .. Len(r) /\ r[i + 1] = add[i + 1]
      BY <1>1, <2>1
    <2> QED BY <2>1, <2>2, <2>3, <2>4
  <1>3. CASE ~(i <= Len(add))
    <2> DEFINE k == i - Len(add) + 1
    <2>1. k \in 2 .. Len(s) /\ r[i] = s[k] /\ k \in 1 .. Len(s) /\ k # 1
      <3>1. PICK l \in Nat, n \in Nat : l = Len(add) /\ n = Len(s)
        BY <1>1
      <3>2. r[i] = s[k]
        BY <1>1, <1>3
      <3>3. i \in Nat /\ i > l /\ i <= l + n - 1
        BY <1>1, <1>3, <3>1
      <3>4. i - l + 1 \in 2 .. n /\ i - l + 1 \in 1 .. n /\ i - l + 1 # 1
        BY <3>3
      <3> QED BY <3>1, <3>2, <3>4
    <2>2. /\ s[k].do = "swap" => s[k - 1].do = "hold"
          /\ s[k].do = "hold" => k # Len(s) /\ s[k + 1].do = "swap"
          /\ s[k].do = "reap" => s[k - 1].do = "write"
      BY <2>1 DEF Paired
    <2>3. k # Len(s) => i # Len(r) /\ i + 1 \in 1 .. Len(r) /\ r[i + 1] = s[k + 1]
      <3>1. k # Len(s) => /\ i # Len(r) /\ i + 1 \in 1 .. Len(r)
                          /\ ~(i + 1 <= Len(add)) /\ (i + 1) - Len(add) + 1 = k + 1
        <4>1. PICK l \in Nat, n \in Nat : l = Len(add) /\ n = Len(s)
          BY <1>1
        <4>2. Len(r) = l + n - 1 /\ i \in Nat /\ i >= 1 /\ i <= l + n - 1 /\ ~(i <= l)
          BY <1>1, <1>3, <4>1
        <4>3. i - l + 1 # n => /\ i # l + n - 1 /\ i + 1 \in 1 .. l + n - 1
                               /\ ~(i + 1 <= l) /\ (i + 1) - l + 1 = (i - l + 1) + 1
          BY <4>2
        <4> QED BY <4>1, <4>2, <4>3
      <3> QED BY <1>1, <3>1
    <2>4. CASE k = 2
      <3>1. i # 1 => Len(add) # 0
        BY <1>1, <2>1, <2>4
      <3>2. i # 1 => s[1].do \notin {"hold", "write"}
        BY <1>0, <3>1
      <3>3. k - 1 = 1
        BY <2>4
      <3> QED BY <2>1, <2>2, <2>3, <3>2, <3>3
    <2>5. CASE k # 2
      <3>0. i - 1 \in 1 .. Len(r) /\ ~(i - 1 <= Len(add)) /\ (i - 1) - Len(add) + 1 = k - 1
        BY <1>1, <2>1, <2>5
      <3>1. r[i - 1] = s[k - 1]
        BY <1>1, <3>0
      <3> QED BY <2>1, <2>2, <2>3, <3>1
    <2> QED BY <2>4, <2>5
  <1> QED BY <1>2, <1>3

(* Where the steps of the new list come from.                                 *)
Spliced(s, add, r) ==
    /\ \A i \in 1 .. Len(r) : \/ \E j \in 1 .. Len(add) : add[j] = r[i]
                              \/ \E j \in 1 .. Len(s) : s[j] = r[i] /\ Before(s[1].do, s[j].do)
    /\ add = <<>> /\ r # <<>> => /\ Before(s[1].do, r[1].do)
                                 /\ r[1].do = "swap" => s[1].do = "hold"
                                 /\ r[1].do = "reap" => s[1].do = "write"
    /\ add # <<>> => r # <<>> /\ r[1] = add[1]
    /\ r # <<>> => Head(r) = r[1]
    /\ s[1].do = "hold" /\ add = <<>> => r # <<>> /\ r[1].do = "swap"

LEMMA NamesSplice ==
    ASSUME NEW s \in Seq(Steps), s # <<>>, NEW add \in Seq(Steps), Ordered(s), Paired(s),
           NEW r, r = add \o Tail(s)
    PROVE  Spliced(s, add, r)
  <1>1. /\ r \in Seq(Steps) /\ Len(s) \in Nat /\ Len(s) # 0 /\ Len(add) \in Nat
        /\ Len(r) = Len(add) + Len(s) - 1
        /\ \A i \in 1 .. Len(r) : r[i] = IF i <= Len(add) THEN add[i] ELSE s[i - Len(add) + 1]
    BY Splice
  <1>2. (Len(add) = 0 <=> add = <<>>) /\ (Len(r) = 0 <=> r = <<>>)
    BY <1>1, EmptySeq
  <1>3. ASSUME NEW i \in 1 .. Len(r)
        PROVE  \/ \E j \in 1 .. Len(add) : add[j] = r[i]
               \/ \E j \in 1 .. Len(s) : s[j] = r[i] /\ Before(s[1].do, s[j].do)
    <2>1. CASE i <= Len(add)
      BY <1>1, <2>1
    <2>2. CASE ~(i <= Len(add))
      <3>1. /\ i - Len(add) + 1 \in 1 .. Len(s) /\ 1 \in 1 .. Len(s) /\ 1 < i - Len(add) + 1
            /\ r[i] = s[i - Len(add) + 1]
        BY <1>1, <2>2
      <3>2. Before(s[1].do, s[i - Len(add) + 1].do)
        BY <3>1 DEF Ordered
      <3> QED BY <3>1, <3>2
    <2> QED BY <2>1, <2>2
  <1>4. ASSUME add = <<>>, r # <<>>
        PROVE  /\ Before(s[1].do, r[1].do)
               /\ r[1].do = "swap" => s[1].do = "hold"
               /\ r[1].do = "reap" => s[1].do = "write"
    <2>0. Len(add) = 0 /\ Len(r) # 0 /\ Len(r) \in Nat
      <3>1. Len(add) = 0 /\ Len(r) # 0
        BY <1>2, <1>4, Zenon
      <3> QED BY <1>1, <3>1
    <2>1. 2 \in 1 .. Len(s) /\ 1 \in 1 .. Len(s) /\ 1 \in 1 .. Len(r) /\ ~(1 <= Len(add)) /\ 1 - Len(add) + 1 = 2
      BY <1>1, <2>0
    <2>3. r[1] = s[2]
      BY <1>1, <2>1
    <2>2. s[2 - 1] = s[1]
      OBVIOUS
    <2> QED BY <2>1, <2>2, <2>3 DEF Ordered, Paired
  <1>5. add # <<>> => r # <<>> /\ r[1] = add[1]
    BY <1>1, <1>2
  <1>6. r # <<>> => Head(r) = r[1]
    BY <1>1 DEF Head
  <1>7. s[1].do = "hold" /\ add = <<>> => r # <<>> /\ r[1].do = "swap"
    <2> SUFFICES ASSUME s[1].do = "hold", add = <<>> PROVE r # <<>> /\ r[1].do = "swap"
      OBVIOUS
    <2>1. 1 \in 1 .. Len(s)
      BY <1>1
    <2>2. 1 # Len(s) /\ s[1 + 1].do = "swap"
      BY <2>1 DEF Paired
    <2>3. r[1] = s[2] /\ Len(r) # 0
      BY <1>1, <1>2, <2>2
    <2> QED BY <1>2, <2>2, <2>3
  <1> QED BY <1>3, <1>4, <1>5, <1>6, <1>7 DEF Spliced

(* What is left of the old list stays.                                        *)
Remains(s, r) == \A i \in 1 .. Len(s) : i # 1 => \E j \in 1 .. Len(r) : r[j] = s[i]

LEMMA KeptSplice ==
    ASSUME NEW s \in Seq(Steps), s # <<>>, NEW add \in Seq(Steps), NEW r, r = add \o Tail(s)
    PROVE  Remains(s, r)
  <1>1. /\ r \in Seq(Steps) /\ Len(s) \in Nat /\ Len(s) # 0 /\ Len(add) \in Nat
        /\ Len(r) = Len(add) + Len(s) - 1
        /\ \A j \in 1 .. Len(r) : r[j] = IF j <= Len(add) THEN add[j] ELSE s[j - Len(add) + 1]
    BY Splice
  <1> SUFFICES ASSUME NEW i \in 1 .. Len(s), i # 1 PROVE \E j \in 1 .. Len(r) : r[j] = s[i]
    BY DEF Remains
  <1>2. /\ i - 1 + Len(add) \in 1 .. Len(r) /\ ~(i - 1 + Len(add) <= Len(add))
        /\ (i - 1 + Len(add)) - Len(add) + 1 = i
    BY <1>1
  <1>3. r[i - 1 + Len(add)] = s[i]
    BY <1>1, <1>2
  <1> QED BY <1>2, <1>3

-----------------------------------------------------------------------------
(* Steps of a task.                                                           *)
Others(t) == \A u \in Tasks : u # t => todo'[u] = todo[u]

LEMMA HeadStep ==
    ASSUME Shape, NEW t \in Tasks, todo[t] # <<>>
    PROVE  /\ todo[t] \in Seq(Steps) /\ Len(todo[t]) \in Nat /\ Len(todo[t]) # 0
           /\ Head(todo[t]) = todo[t][1] /\ Head(todo[t]) \in Steps
           /\ Head(todo[t]) = Do(Head(todo[t]).do, Arg(t))
           /\ Head(todo[t]).do \in StepNames
           /\ Head(todo[t]).do \in OnAfp => Arg(t) \in Afps
           /\ Head(todo[t]).do \in OnRec => Arg(t) \in Objs \cup {"MARKER"}
           /\ Head(todo[t]).do = "get" => Arg(t) \in Files
           /\ Head(todo[t]).do = "purge" => Arg(t) \in SUBSET Tasks
           /\ Has(t, Head(todo[t]).do)
           /\ Head(todo[t]).do = "get" => Getting(t, Arg(t))
  <1>1. todo[t] \in Seq(Steps)
    BY DEF Shape
  <1>2. Len(todo[t]) \in Nat /\ Len(todo[t]) # 0
    BY <1>1, EmptySeq
  <1>3. Head(todo[t]) = todo[t][1] /\ todo[t][1] \in Steps /\ 1 \in 1 .. Len(todo[t])
    BY <1>1, <1>2 DEF Head
  <1> DEFINE h == Head(todo[t])
  <1>4. h \in Steps
    BY <1>3
  <1> HIDE DEF h
  <1>5. /\ h = [do |-> h.do, x |-> h.x] /\ h.do \in StepNames
        /\ h.do \in OnAfp => h.x \in Afps
        /\ h.do \in OnRec => h.x \in Objs \cup {"MARKER"}
        /\ h.do = "get" => h.x \in Files
        /\ h.do = "purge" => h.x \in SUBSET Tasks
    BY <1>4 DEF Steps, OnAfp, OnRec, Plain, StepNames
  <1>6. Has(t, h.do) /\ (h.do = "get" => Getting(t, h.x))
    BY <1>3, <1>5 DEF Has, Getting, Do, h
  <1> QED BY <1>1, <1>2, <1>3, <1>4, <1>5, <1>6 DEF h, Arg, Do

Continued(t, add, p) ==
    /\ todo' \in [Tasks -> Seq(Steps)] /\ Others(t)
    /\ Ordered(todo'[t]) /\ Paired(todo'[t])
    /\ \A q : Has(t, q)' => (\E j \in 1 .. Len(add) : add[j].do = q) \/ (Has(t, q) /\ Before(p, q))
    /\ \A q : Has(t, q) /\ q # p => Has(t, q)'
    /\ \A f : Getting(t, f)' => \/ \E j \in 1 .. Len(add) : add[j] = Do("get", f)
                                \/ Getting(t, f) /\ Before(p, "get")
    /\ add = <<>> => \A q : At(t, q)' =>
          Before(p, q) /\ (q = "swap" => p = "hold") /\ (q = "reap" => p = "write")
    /\ add = <<>> /\ p = "hold" => At(t, "swap")'
    /\ add # <<>> => todo'[t] # <<>> /\ Head(todo'[t]) = add[1]

LEMMA Continues ==
    ASSUME Shape, NEW t \in Tasks, todo[t] # <<>>, Ordered(todo[t]), Paired(todo[t]),
           NEW add \in Seq(Steps), Continue(t, add), Ordered(add), Paired(add),
           NEW p, p = Head(todo[t]).do,
           \A j \in 1 .. Len(add) : \A q \in StepNames : Before(p, q) => Before(add[j].do, q),
           add = <<>> \/ p \notin {"hold", "write"}
    PROVE  Continued(t, add, p)
  <1>1. todo[t] \in Seq(Steps) /\ Head(todo[t]) = todo[t][1] /\ p = todo[t][1].do
    BY HeadStep
  <1>2. todo' = [todo EXCEPT ![t] = add \o Tail(todo[t])]
    BY DEF Continue
  <1>3. add \o Tail(todo[t]) \in Seq(Steps)
    BY <1>1, Splice
  <1>4. todo' \in [Tasks -> Seq(Steps)] /\ Others(t) /\ todo'[t] = add \o Tail(todo[t])
    BY <1>2, <1>3 DEF Shape, Others
  <1>5. Ordered(todo'[t])
    BY <1>1, <1>4, OrderedSplice
  <1>6. Paired(todo'[t])
    BY <1>1, <1>4, PairedSplice
  <1>7. PICK s : s = todo[t]
    OBVIOUS
  <1>8. PICK r : r = todo'[t]
    OBVIOUS
  <1>9. s \in Seq(Steps) /\ s # <<>> /\ Ordered(s) /\ Paired(s) /\ r = add \o Tail(s)
    BY <1>1, <1>4, <1>7, <1>8
  <1>16. Spliced(s, add, r)
    BY <1>9, NamesSplice
  <1>10. ASSUME NEW q, Has(t, q)'
         PROVE  (\E j \in 1 .. Len(add) : add[j].do = q) \/ (Has(t, q) /\ Before(p, q))
    <2>1. PICK i \in 1 .. Len(r) : r[i].do = q
      BY <1>8, <1>10 DEF Has
    <2> QED BY <1>1, <1>7, <1>16, <2>1 DEF Has, Spliced
  <1>11. ASSUME NEW q, Has(t, q), q # p PROVE Has(t, q)'
    <2>1. PICK i \in 1 .. Len(s) : s[i].do = q
      BY <1>7, <1>11 DEF Has
    <2>2. i # 1
      BY <1>1, <1>7, <1>11, <2>1
    <2>3. Remains(s, r)
      BY <1>9, KeptSplice
    <2>4. \E j \in 1 .. Len(r) : r[j] = s[i]
      BY <2>2, <2>3 DEF Remains
    <2> QED BY <1>8, <2>1, <2>4 DEF Has
  <1>12. ASSUME NEW f, Getting(t, f)'
         PROVE  \/ \E j \in 1 .. Len(add) : add[j] = Do("get", f)
                \/ Getting(t, f) /\ Before(p, "get")
    <2>1. PICK i \in 1 .. Len(r) : r[i] = Do("get", f)
      BY <1>8, <1>12 DEF Getting
    <2>2. Do("get", f).do = "get"
      BY DEF Do
    <2> QED BY <1>1, <1>7, <1>16, <2>1, <2>2 DEF Getting, Spliced
  <1>13. ASSUME add = <<>>, NEW q, At(t, q)'
         PROVE  Before(p, q) /\ (q = "swap" => p = "hold") /\ (q = "reap" => p = "write")
    BY <1>1, <1>7, <1>8, <1>16, <1>13 DEF At, Spliced
  <1>14. add = <<>> /\ p = "hold" => At(t, "swap")'
    BY <1>1, <1>7, <1>8, <1>16 DEF At, Spliced
  <1>15. add # <<>> => todo'[t] # <<>> /\ Head(todo'[t]) = add[1]
    BY <1>8, <1>16 DEF Spliced
  <1> QED BY <1>4, <1>5, <1>6, <1>10, <1>11, <1>12, <1>13, <1>14, <1>15 DEF Continued

(* The step is done and calls for nothing.                                    *)
Moved(t) == /\ todo' \in [Tasks -> Seq(Steps)] /\ Others(t)
            /\ Ordered(todo'[t]) /\ Paired(todo'[t])

LEMMA Done ==
    ASSUME Shape, NEW t \in Tasks, TaskInv(t), NEW p, At(t, p), Continue(t, <<>>)
    PROVE  /\ Moved(t)
           /\ \A q : Has(t, q)' => Has(t, q) /\ Before(p, q)
           /\ \A q : Has(t, q) /\ q # p => Has(t, q)'
           /\ \A f : Getting(t, f)' => Getting(t, f) /\ Before(p, "get")
           /\ At(t, "swap")' <=> p = "hold"
           /\ At(t, "reap")' => p = "write"
           /\ ~At(t, "rele")' /\ ~At(t, "destroy")' /\ ~At(t, "take")' /\ ~At(t, "append")'
  <1>1. todo[t] # <<>> /\ p = Head(todo[t]).do /\ Ordered(todo[t]) /\ Paired(todo[t])
    BY DEF At, TaskInv
  <1>2. PICK add : add = <<>>
    OBVIOUS
  <1>3. add \in Seq(Steps) /\ 1 .. Len(add) = {} /\ Continue(t, add)
    BY <1>2
  <1>4. Ordered(add) /\ Paired(add)
    BY <1>3 DEF Ordered, Paired
  <1>5. \A j \in 1 .. Len(add) : \A q \in StepNames : Before(p, q) => Before(add[j].do, q)
    BY <1>3
  <1> HIDE DEF Before, Ordered, Paired
  <1>6. Continued(t, add, p)
    BY <1>1, <1>2, <1>3, <1>4, <1>5, Continues
  <1>7. \A q : At(t, q)' =>
              Before(p, q) /\ (q = "swap" => p = "hold") /\ (q = "reap" => p = "write")
    BY <1>2, <1>6 DEF Continued
  <1>8. /\ ~Before(p, "rele") /\ ~Before(p, "destroy") /\ ~Before(p, "take") /\ ~Before(p, "append")
    BY DEF Before, Purging
  <1> QED BY <1>2, <1>3, <1>6, <1>7, <1>8 DEF Moved, Continued

(* The step calls for one other.                                              *)
LEMMA Then ==
    ASSUME Shape, NEW t \in Tasks, TaskInv(t), NEW p, At(t, p), NEW x \in Steps,
           Continue(t, <<x>>), p \notin {"hold", "write"}, x.do \notin {"hold", "get"},
           \A q \in StepNames : Before(p, q) => Before(x.do, q)
    PROVE  /\ Moved(t)
           /\ \A q : Has(t, q)' => q = x.do \/ (Has(t, q) /\ Before(p, q))
           /\ \A q : Has(t, q) /\ q # p => Has(t, q)'
           /\ \A f : Getting(t, f)' => Getting(t, f) /\ Before(p, "get")
           /\ \A q : At(t, q)' <=> q = x.do
           /\ Arg(t)' = x.x
  <1>1. todo[t] # <<>> /\ p = Head(todo[t]).do /\ Ordered(todo[t]) /\ Paired(todo[t])
    BY DEF At, TaskInv
  <1>2. PICK add : add = <<x>>
    OBVIOUS
  <1>3. add \in Seq(Steps) /\ Len(add) = 1 /\ add[1] = x /\ Continue(t, add) /\ add # <<>>
    BY <1>2
  <1> HIDE <1>2
  <1>4. Ordered(add) /\ Paired(add)
    BY <1>3 DEF Ordered, Paired
  <1>5. \A j \in 1 .. Len(add) : \A q \in StepNames : Before(p, q) => Before(add[j].do, q)
    BY <1>3
  <1>6. Continued(t, add, p)
    BY <1>1, <1>3, <1>4, <1>5, Continues
  <1>7. \A q : (\E j \in 1 .. Len(add) : add[j].do = q) => q = x.do
    BY <1>3
  <1>8. ASSUME NEW f, NEW j \in 1 .. Len(add) PROVE add[j] # Do("get", f)
    BY <1>3 DEF Do
  <1>9. (\A q : At(t, q)' <=> q = x.do) /\ Arg(t)' = x.x
    BY <1>3, <1>6 DEF At, Arg, Continued
  <1> QED BY <1>6, <1>7, <1>8, <1>9 DEF Moved, Continued

(* The step calls for two others.                                             *)
LEMMA ThenBoth ==
    ASSUME Shape, NEW t \in Tasks, TaskInv(t), NEW p, At(t, p), NEW x \in Steps, NEW y \in Steps,
           Continue(t, <<x, y>>), p \notin {"hold", "write"},
           x.do \notin {"hold", "get"}, y.do \notin {"hold", "get", "swap"},
           y.do = "reap" => x.do = "write", Before(x.do, y.do),
           \A q \in StepNames : Before(p, q) => Before(x.do, q) /\ Before(y.do, q)
    PROVE  /\ Moved(t)
           /\ \A q : Has(t, q)' => q = x.do \/ q = y.do \/ (Has(t, q) /\ Before(p, q))
           /\ \A q : Has(t, q) /\ q # p => Has(t, q)'
           /\ \A f : Getting(t, f)' => Getting(t, f) /\ Before(p, "get")
           /\ \A q : At(t, q)' <=> q = x.do
           /\ Arg(t)' = x.x
  <1>1. todo[t] # <<>> /\ p = Head(todo[t]).do /\ Ordered(todo[t]) /\ Paired(todo[t])
    BY DEF At, TaskInv
  <1>2. PICK add : add = <<x, y>>
    OBVIOUS
  <1>3. add \in Seq(Steps) /\ Len(add) = 2 /\ add[1] = x /\ add[2] = y /\ Continue(t, add) /\ add # <<>>
    BY <1>2
  <1> HIDE <1>2
  <1>0. 1 .. Len(add) = {1, 2}
    BY <1>3
  <1>4. Ordered(add) /\ Paired(add)
    <2>1. Ordered(add)
      BY <1>0, <1>3 DEF Ordered
    <2>2. Paired(add)
      <3>1. 2 - 1 = 1
        OBVIOUS
      <3> QED BY <1>0, <1>3, <3>1 DEF Paired
    <2> QED BY <2>1, <2>2
  <1>5. \A j \in 1 .. Len(add) : \A q \in StepNames : Before(p, q) => Before(add[j].do, q)
    BY <1>0, <1>3
  <1>6. Continued(t, add, p)
    BY <1>1, <1>3, <1>4, <1>5, Continues
  <1>7. \A q : (\E j \in 1 .. Len(add) : add[j].do = q) => q = x.do \/ q = y.do
    BY <1>0, <1>3
  <1>8. ASSUME NEW f, NEW j \in 1 .. Len(add) PROVE add[j] # Do("get", f)
    BY <1>0, <1>3 DEF Do
  <1>9. (\A q : At(t, q)' <=> q = x.do) /\ Arg(t)' = x.x
    BY <1>3, <1>6 DEF At, Arg, Continued
  <1> QED BY <1>6, <1>7, <1>8, <1>9 DEF Moved, Continued

-----------------------------------------------------------------------------
(* The lists a call begins with: in order, with the names N of its steps, the *)
(* first step h, and files to get only in G.                                  *)
IsList(s, N, h, G) ==
    /\ s \in Seq(Steps) /\ s # <<>> /\ Len(s) \in Nat \ {0} /\ s[1] = h
    /\ Ordered(s) /\ Paired(s)
    /\ \A i \in 1 .. Len(s) : s[i].do \in N
    /\ \A q \in N : \E i \in 1 .. Len(s) : s[i].do = q
    /\ \A i \in 1 .. Len(s) : s[i].do = "get" => s[i].x \in G

LEMMA ListOne ==
    ASSUME NEW x \in Steps, x.do # "hold", NEW G, x.do = "get" => x.x \in G
    PROVE  IsList(<<x>>, {x.do}, x, G)
  <1>1. PICK s : s = <<x>>
    OBVIOUS
  <1>2. s \in Seq(Steps) /\ Len(s) = 1 /\ s[1] = x /\ s # <<>> /\ 1 .. Len(s) = {1}
    BY <1>1
  <1>3. Ordered(s) /\ Paired(s)
    BY <1>2 DEF Ordered, Paired
  <1> QED BY <1>1, <1>2, <1>3 DEF IsList

LEMMA ListTwo ==
    ASSUME NEW x \in Steps, NEW y \in Steps, NEW G, Before(x.do, y.do), x.do # "get", y.do # "get",
           x.do = "hold" <=> y.do = "swap", x.do = "write" <=> y.do = "reap", y.do # "hold"
    PROVE  IsList(<<x, y>>, {x.do, y.do}, x, G)
  <1>1. PICK s : s = <<x, y>>
    OBVIOUS
  <1>2. /\ s \in Seq(Steps) /\ Len(s) = 2 /\ s[1] = x /\ s[2] = y /\ s # <<>> /\ 1 .. Len(s) = {1, 2}
        /\ s[2 - 1] = x /\ s[1 + 1] = y
    BY <1>1
  <1>3. Ordered(s) /\ Paired(s)
    BY <1>2 DEF Ordered, Paired
  <1> QED BY <1>1, <1>2, <1>3 DEF IsList

LEMMA ListThree ==
    ASSUME NEW x \in Steps, NEW y \in Steps, NEW z \in Steps, NEW G,
           x.do = "write", y.do = "reap", z.do = "obsolete"
    PROVE  IsList(<<x, y, z>>, {"write", "reap", "obsolete"}, x, G)
  <1>1. PICK s : s = <<x, y, z>>
    OBVIOUS
  <1>2. /\ s \in Seq(Steps) /\ Len(s) = 3 /\ s[1] = x /\ s[2] = y /\ s[3] = z /\ s # <<>>
        /\ 1 .. Len(s) = {1, 2, 3} /\ s[2 - 1] = x
    BY <1>1
  <1>3. Ordered(s)
    BY <1>2 DEF Ordered, Before, Purging
  <1>4. Paired(s)
    BY <1>2 DEF Paired
  <1> QED BY <1>1, <1>2, <1>3, <1>4 DEF IsList

LEMMA ListJoin ==
    ASSUME NEW u, NEW N, NEW h, NEW v, NEW M, NEW g, NEW G, IsList(u, N, h, G), IsList(v, M, g, G),
           g.do \notin {"swap", "reap"}, \A p \in N : \A q \in M : Before(p, q)
    PROVE  IsList(u \o v, N \cup M, h, G)
  <1>1. /\ u \in Seq(Steps) /\ v \in Seq(Steps) /\ Len(u) \in Nat \ {0} /\ Len(v) \in Nat \ {0}
        /\ u[1] = h /\ v[1] = g /\ Ordered(u) /\ Ordered(v) /\ Paired(u) /\ Paired(v)
    BY DEF IsList
  <1>2. PICK s : s = u \o v
    OBVIOUS
  <1>3. /\ s \in Seq(Steps) /\ Len(s) = Len(u) + Len(v)
        /\ \A i \in 1 .. Len(s) : s[i] = IF i <= Len(u) THEN u[i] ELSE v[i - Len(u)]
    <2>1. /\ u \o v \in Seq(Steps) /\ Len(u \o v) = Len(u) + Len(v)
          /\ \A i \in 1 .. Len(u) + Len(v) : (u \o v)[i] = IF i <= Len(u) THEN u[i] ELSE v[i - Len(u)]
      BY <1>1, ConcatProperties
    <2> QED BY <1>2, <2>1
  <1>4. ASSUME NEW i \in 1 .. Len(u) PROVE i \in 1 .. Len(s) /\ s[i] = u[i]
    BY <1>1, <1>3
  <1>5. ASSUME NEW i \in 1 .. Len(v) PROVE i + Len(u) \in 1 .. Len(s) /\ s[i + Len(u)] = v[i]
    <2>1. i + Len(u) \in 1 .. Len(s) /\ ~(i + Len(u) <= Len(u)) /\ i + Len(u) - Len(u) = i
      BY <1>1, <1>3
    <2> QED BY <1>3, <2>1
  <1>6. ASSUME NEW i \in 1 .. Len(s)
        PROVE  \/ i \in 1 .. Len(u) /\ s[i] = u[i]
               \/ i - Len(u) \in 1 .. Len(v) /\ s[i] = v[i - Len(u)]
    BY <1>1, <1>3
  <1>7. s # <<>> /\ Len(s) \in Nat \ {0} /\ s[1] = h
    <2>1. 1 \in 1 .. Len(u)
      BY <1>1
    <2> QED BY <1>1, <1>3, <1>4, <2>1, EmptySeq
  <1>8. Ordered(s)
    <2> SUFFICES ASSUME NEW i \in 1 .. Len(s), NEW j \in 1 .. Len(s), j < i
                 PROVE  Before(s[j].do, s[i].do)
      BY DEF Ordered
    <2>1. CASE i \in 1 .. Len(u) /\ s[i] = u[i]
      <3>1. j \in 1 .. Len(u) /\ s[j] = u[j]
        BY <1>1, <1>3, <2>1
      <3> QED BY <1>1, <2>1, <3>1 DEF Ordered
    <2>2. CASE i - Len(u) \in 1 .. Len(v) /\ s[i] = v[i - Len(u)]
      <3>1. CASE j \in 1 .. Len(u) /\ s[j] = u[j]
        BY <2>2, <3>1 DEF IsList
      <3>2. CASE j - Len(u) \in 1 .. Len(v) /\ s[j] = v[j - Len(u)]
        <4>1. j - Len(u) < i - Len(u)
          BY <1>1
        <4> QED BY <1>1, <2>2, <3>2, <4>1 DEF Ordered
      <3> QED BY <1>6, <3>1, <3>2
    <2> QED BY <1>6, <2>1, <2>2
  <1>9. Paired(s)
    <2> SUFFICES ASSUME NEW i \in 1 .. Len(s)
                 PROVE  /\ s[i].do = "swap" /\ i # 1 => s[i - 1].do = "hold"
                        /\ s[i].do = "hold" => i # Len(s) /\ s[i + 1].do = "swap"
                        /\ s[i].do = "reap" /\ i # 1 => s[i - 1].do = "write"
      BY DEF Paired
    <2>1. CASE i \in 1 .. Len(u) /\ s[i] = u[i]
      <3>1. /\ u[i].do = "swap" /\ i # 1 => u[i - 1].do = "hold"
            /\ u[i].do = "hold" => i # Len(u) /\ u[i + 1].do = "swap"
            /\ u[i].do = "reap" /\ i # 1 => u[i - 1].do = "write"
        BY <1>1, <2>1 DEF Paired
      <3>2. i # 1 => s[i - 1] = u[i - 1]
        <4>1. i # 1 => i - 1 \in 1 .. Len(u)
          BY <1>1, <2>1
        <4> QED BY <1>4, <4>1
      <3>3. i # Len(u) => i # Len(s) /\ s[i + 1] = u[i + 1]
        <4>1. i # Len(u) => i + 1 \in 1 .. Len(u) /\ i # Len(s)
          BY <1>1, <1>3, <2>1
        <4> QED BY <1>4, <4>1
      <3> QED BY <2>1, <3>1, <3>2, <3>3
    <2>2. CASE i - Len(u) \in 1 .. Len(v) /\ s[i] = v[i - Len(u)]
      <3>0. PICK k \in 1 .. Len(v) : k = i - Len(u)
        BY <2>2
      <3>1. /\ v[k].do = "swap" /\ k # 1 => v[k - 1].do = "hold"
            /\ v[k].do = "hold" => k # Len(v) /\ v[k + 1].do = "swap"
            /\ v[k].do = "reap" /\ k # 1 => v[k - 1].do = "write"
        BY <1>1 DEF Paired
      <3>2. k # 1 => s[i - 1] = v[k - 1]
        <4>1. k # 1 => k - 1 \in 1 .. Len(v) /\ (k - 1) + Len(u) = i - 1
          BY <1>1, <3>0
        <4> QED BY <1>5, <4>1
      <3>3. k # Len(v) => i # Len(s) /\ s[i + 1] = v[k + 1]
        <4>2. i = k + Len(u) /\ i + 1 = (k + 1) + Len(u)
          BY <1>1, <3>0
        <4>1. k # Len(v) => k + 1 \in 1 .. Len(v) /\ (k + 1) + Len(u) = i + 1 /\ i # Len(s)
          <5> HIDE <1>4, <1>5, <1>6
          <5>1. Len(s) = Len(u) + Len(v)
            BY <1>3
          <5> QED BY <1>1, <4>2, <5>1
        <4> QED BY <1>5, <4>1
      <3>4. k = 1 => v[k].do \notin {"swap", "reap"}
        BY <1>1
      <3> QED BY <2>2, <3>0, <3>1, <3>2, <3>3, <3>4
    <2> QED BY <1>6, <2>1, <2>2
  <1>10. ASSUME NEW i \in 1 .. Len(s)
         PROVE  s[i].do \in N \cup M /\ (s[i].do = "get" => s[i].x \in G)
    <2>1. CASE i \in 1 .. Len(u) /\ s[i] = u[i]
      BY <2>1 DEF IsList
    <2>2. CASE i - Len(u) \in 1 .. Len(v) /\ s[i] = v[i - Len(u)]
      <3>1. PICK k \in 1 .. Len(v) : s[i] = v[k]
        BY <2>2
      <3> HIDE <2>2
      <3> QED BY <3>1 DEF IsList
    <2> QED BY <1>6, <2>1, <2>2
  <1>11. ASSUME NEW q \in N \cup M PROVE \E i \in 1 .. Len(s) : s[i].do = q
    <2>1. CASE q \in N
      BY <1>4, <2>1 DEF IsList
    <2>2. CASE q \in M
      <3>1. PICK i \in 1 .. Len(v) : v[i].do = q
        BY <2>2 DEF IsList
      <3> QED BY <1>5, <3>1
    <2> QED BY <2>1, <2>2
  <1> QED BY <1>2, <1>3, <1>7, <1>8, <1>9, <1>10, <1>11 DEF IsList

LEMMA Begins ==
    ASSUME Shape, NEW t \in Tasks, NEW s, NEW N, NEW h, NEW G, IsList(s, N, h, G),
           todo[t] = <<>>, todo' = [todo EXCEPT ![t] = s]
    PROVE  /\ Moved(t)
           /\ \A q : Has(t, q)' <=> q \in N
           /\ \A f : Getting(t, f)' => f \in G
           /\ \A q : At(t, q)' <=> q = h.do
           /\ \A q, a : ~(At(t, q) /\ Arg(t) = a) /\ ~Has(t, q)
  <1>1. todo' \in [Tasks -> Seq(Steps)] /\ Others(t) /\ todo'[t] = s
    BY DEF Shape, Others, IsList
  <1>2. Moved(t)
    BY <1>1 DEF Moved, IsList
  <1>3. \A q : Has(t, q)' <=> q \in N
    BY <1>1 DEF Has, IsList
  <1>4. \A f : Getting(t, f)' => f \in G
    <2> SUFFICES ASSUME NEW f, Getting(t, f)' PROVE f \in G
      OBVIOUS
    <2>1. PICK i \in 1 .. Len(s) : s[i] = Do("get", f)
      BY <1>1 DEF Getting
    <2>2. s[i].do = "get" /\ s[i].x = f
      BY <2>1 DEF Do
    <2> QED BY <2>2 DEF IsList
  <1>5. \A q : At(t, q)' <=> q = h.do
    BY <1>1 DEF At, IsList, Head
  <1>6. \A q, a : ~(At(t, q) /\ Arg(t) = a) /\ ~Has(t, q)
    BY DEF At, Has
  <1> QED BY <1>2, <1>3, <1>4, <1>5, <1>6

-----------------------------------------------------------------------------
(* Counting references: what a task has itself, and what its process has.     *)
One(b) == IF b THEN 1 ELSE 0
Own(t, a) == One(thr[t].afp = a) + One(At(t, "swap") /\ thr[t].afp = a)
             + One(At(t, "rele") /\ Arg(t) = a)
Of(p, a) == One(proc[p].afp = a)

LEMMA CardStep ==
    ASSUME NEW S, IsFiniteSet(S), NEW R, NEW x, R \ {x} = S \ {x}
    PROVE  /\ Cardinality(R) = Cardinality(S) - One(x \in S) + One(x \in R)
           /\ Cardinality(S) \in Nat /\ Cardinality(R) \in Nat
  <1>0. Cardinality(S) \in Nat
    BY FS_CardinalityType
  <1>1. CASE x \in S <=> x \in R
    <2>1. R = S
      BY <1>1
    <2> QED BY <1>0, <1>1, <2>1 DEF One
  <1>3. CASE x \in S /\ x \notin R
    <2>1. R = S \ {x} /\ IsFiniteSet(R)
      BY <1>3, FS_RemoveElement
    <2>2. Cardinality(R) = Cardinality(S) - 1
      BY <1>3, <2>1, FS_RemoveElement
    <2>3. Cardinality(R) \in Nat
      BY <2>1, FS_CardinalityType
    <2> QED BY <1>0, <1>3, <2>2, <2>3 DEF One
  <1>4. CASE x \notin S /\ x \in R
    <2>1. R = S \cup {x}
      BY <1>4
    <2>2. Cardinality(R) = Cardinality(S) + 1
      BY <1>4, <2>1, FS_AddElement
    <2> QED BY <1>0, <1>4, <2>2 DEF One
  <1> QED BY <1>1, <1>3, <1>4

LEMMA FiniteRefs ==
    ASSUME NEW S, S \subseteq Tasks
    PROVE  IsFiniteSet(S) /\ Cardinality(S) \in Nat
  BY AuditAssumption, FS_Subset, FS_CardinalityType DEF AuditAssumption

LEMMA RefStep ==
    ASSUME NEW t \in Tasks, NEW p \in Tasks, NEW a, Others(t),
           \A u \in Tasks : u # t => thr'[u] = thr[u],
           \A u \in Tasks : u # p => proc'[u] = proc[u]
    PROVE  /\ RefCount(a)' = RefCount(a) - Own(t, a) + Own(t, a)' - Of(p, a) + Of(p, a)'
           /\ RefCount(a) \in Nat /\ RefCount(a)' \in Nat
  <1>1. /\ ByThr(a)' \ {t} = ByThr(a) \ {t} /\ IsFiniteSet(ByThr(a))
        /\ (t \in ByThr(a) <=> thr[t].afp = a) /\ (t \in ByThr(a)' <=> thr'[t].afp = a)
    <2>1. ByThr(a) \subseteq Tasks
      BY DEF ByThr
    <2>2. ByThr(a)' \ {t} = ByThr(a) \ {t}
      BY DEF ByThr
    <2> QED BY <2>1, <2>2, FiniteRefs DEF ByThr
  <1>2. /\ ByProc(a)' \ {p} = ByProc(a) \ {p} /\ IsFiniteSet(ByProc(a))
        /\ (p \in ByProc(a) <=> proc[p].afp = a) /\ (p \in ByProc(a)' <=> proc'[p].afp = a)
    <2>1. ByProc(a) \subseteq Tasks
      BY DEF ByProc
    <2>2. ByProc(a)' \ {p} = ByProc(a) \ {p}
      BY DEF ByProc
    <2> QED BY <2>1, <2>2, FiniteRefs DEF ByProc
  <1>3. /\ ByHold(a)' \ {t} = ByHold(a) \ {t} /\ IsFiniteSet(ByHold(a))
        /\ (t \in ByHold(a) <=> At(t, "swap") /\ thr[t].afp = a)
        /\ (t \in ByHold(a)' <=> At(t, "swap")' /\ thr'[t].afp = a)
    <2>1. ByHold(a) \subseteq Tasks
      BY DEF ByHold
    <2>2. ByHold(a)' \ {t} = ByHold(a) \ {t}
      BY DEF ByHold, At, Others
    <2> QED BY <2>1, <2>2, FiniteRefs DEF ByHold
  <1>4. /\ ByRele(a)' \ {t} = ByRele(a) \ {t} /\ IsFiniteSet(ByRele(a))
        /\ (t \in ByRele(a) <=> At(t, "rele") /\ Arg(t) = a)
        /\ (t \in ByRele(a)' <=> At(t, "rele")' /\ Arg(t)' = a)
    <2>1. ByRele(a) \subseteq Tasks
      BY DEF ByRele
    <2>2. ByRele(a)' \ {t} = ByRele(a) \ {t}
      BY DEF ByRele, At, Arg, Others
    <2> QED BY <2>1, <2>2, FiniteRefs DEF ByRele
  <1>5. /\ Cardinality(ByThr(a)') = Cardinality(ByThr(a)) - One(thr[t].afp = a) + One(thr'[t].afp = a)
        /\ Cardinality(ByThr(a)) \in Nat /\ Cardinality(ByThr(a)') \in Nat
    BY <1>1, CardStep
  <1>6. /\ Cardinality(ByProc(a)') = Cardinality(ByProc(a)) - Of(p, a) + Of(p, a)'
        /\ Cardinality(ByProc(a)) \in Nat /\ Cardinality(ByProc(a)') \in Nat
    BY <1>2, CardStep DEF Of
  <1>7. /\ Cardinality(ByHold(a)') = Cardinality(ByHold(a)) - One(At(t, "swap") /\ thr[t].afp = a)
              + One(At(t, "swap")' /\ thr'[t].afp = a)
        /\ Cardinality(ByHold(a)) \in Nat /\ Cardinality(ByHold(a)') \in Nat
    BY <1>3, CardStep
  <1>8. /\ Cardinality(ByRele(a)') = Cardinality(ByRele(a)) - One(At(t, "rele") /\ Arg(t) = a)
              + One(At(t, "rele")' /\ Arg(t)' = a)
        /\ Cardinality(ByRele(a)) \in Nat /\ Cardinality(ByRele(a)') \in Nat
    BY <1>4, CardStep
  <1>9. \A b : One(b) \in {0, 1}
    BY DEF One
  <1> QED BY <1>5, <1>6, <1>7, <1>8, <1>9 DEF RefCount, Own, Of

(* An audit file that is pointed to is in use.                                *)
LEMMA Points ==
    ASSUME AuditInv, NEW a \in Afps, NEW t \in Tasks,
           thr[t].afp = a \/ proc[t].afp = a \/ (At(t, "rele") /\ Arg(t) = a)
    PROVE  /\ afp[a].live /\ ~afp[a].destroy
           /\ afp[a].refcnt = RefCount(a) /\ afp[a].refcnt # 0
           /\ RefCount(a) # 0
  <1>1. /\ Cardinality(ByThr(a)) \in Nat /\ Cardinality(ByProc(a)) \in Nat
        /\ Cardinality(ByHold(a)) \in Nat /\ Cardinality(ByRele(a)) \in Nat
    BY FiniteRefs DEF ByThr, ByProc, ByHold, ByRele
  <1>2. \A S : S \subseteq Tasks /\ t \in S => Cardinality(S) # 0
    BY FiniteRefs, FS_EmptySet
  <1>3. t \in ByThr(a) \/ t \in ByProc(a) \/ t \in ByRele(a)
    BY DEF ByThr, ByProc, ByRele
  <1>4. ByThr(a) \subseteq Tasks /\ ByProc(a) \subseteq Tasks /\ ByRele(a) \subseteq Tasks
    BY DEF ByThr, ByProc, ByRele
  <1>5. RefCount(a) # 0
    <2>1. Cardinality(ByThr(a)) # 0 \/ Cardinality(ByProc(a)) # 0 \/ Cardinality(ByRele(a)) # 0
      BY <1>2, <1>3, <1>4
    <2>2. \A i, j, k, l \in Nat : i # 0 \/ j # 0 \/ l # 0 => i + j + k + l # 0
      OBVIOUS
    <2>3. RefCount(a) = Cardinality(ByThr(a)) + Cardinality(ByProc(a)) + Cardinality(ByHold(a))
                        + Cardinality(ByRele(a))
      BY Zenon DEF RefCount
    <2> QED BY <1>1, <2>1, <2>2, <2>3
  <1>6. AfpInv(a)
    BY DEF AuditInv
  <1> QED BY <1>5, <1>6 DEF AfpInv

-----------------------------------------------------------------------------
(* What a step of a task leaves alone.                                        *)
Alone(t) ==
    /\ Others(t)
    /\ \A u \in Tasks : u # t => thr'[u] = thr[u] /\ mark'[u] = mark[u]
    /\ \A u \in Tasks : u # t => (u \in alive' <=> u \in alive)
    /\ \A u \in Tasks : u # t => proc'[u] = proc[u] \/ (u \notin alive /\ proc'[u] = NoProc)

(* An audit file that is referenced keeps its records, errors and file.       *)
Grows(a) ==
    /\ afp[a].made <= afp'[a].made /\ afp[a].out <= afp'[a].out
    /\ (afp[a].werr => afp'[a].werr) /\ afp'[a].file = afp[a].file

LEMMA OtherTask ==
    ASSUME AuditInv, Shape', NEW t \in Tasks, NEW u \in Tasks, u # t, Alone(t),
           \A a \in Afps : RefCount(a) = 0 \/ Grows(a)
    PROVE  TaskInv(u)'
  <1>1. /\ todo'[u] = todo[u] /\ thr'[u] = thr[u] /\ mark'[u] = mark[u]
        /\ (u \in alive' <=> u \in alive)
        /\ (proc'[u] = proc[u] \/ (u \notin alive /\ proc'[u] = NoProc))
    BY DEF Alone, Others
  <1>2. TaskInv(u) /\ thr[u].afp \in Afps \cup {Null} /\ mark[u] \in Nat
    BY DEF AuditInv, Shape, ThrType
  <1>3. (\A q : Has(u, q)' <=> Has(u, q)) /\ (\A q : At(u, q)' <=> At(u, q))
    BY <1>1 DEF Has, At
  <1>4. CASE thr[u].afp = Null
    <2>1. ~Has(u, "write") /\ ~Has(u, "reap") /\ ~At(u, "reap")
      <3>1. ~Has(u, "write") /\ ~Has(u, "reap")
        BY <1>2, <1>4 DEF TaskInv
      <3>2. At(u, "reap") => Has(u, "reap")
        BY HeadStep DEF At, AuditInv
      <3> QED BY <3>1, <3>2
    <2> QED BY <1>1, <1>2, <1>3, <1>4, <2>1 DEF TaskInv, NoProc
  <1>5. CASE thr[u].afp # Null
    <2>1. PICK a \in Afps : thr[u].afp = a
      BY <1>2, <1>5
    <2>2. Grows(a) /\ afp[a] \in AfpType /\ afp'[a] \in AfpType
      BY <2>1, Points DEF AuditInv, Shape
    <2>3. /\ mark[u] <= afp[a].made => mark[u] <= afp'[a].made
          /\ mark[u] <= afp[a].out => mark[u] <= afp'[a].out
          /\ ~afp'[a].werr => ~afp[a].werr
      BY <1>2, <2>2 DEF Grows, AfpType
    <2> QED BY <1>1, <1>2, <1>3, <1>5, <2>1, <2>3 DEF TaskInv, NoProc
  <1> QED BY <1>4, <1>5

(* No keeper gives up what it has.                                            *)
Keepsafe == \A k \in Keepers : proc[k].afp # Null => proc'[k].afp = proc[k].afp

LEMMA OtherKeeper ==
    ASSUME AuditInv, NEW t \in Tasks, NEW k \in Keepers, k # t, Alone(t)
    PROVE  KeeperInv(k)' /\ proc'[k] = proc[k]
  <1>1. k \in Tasks /\ KeeperInv(k)
    BY AuditAssumption DEF AuditAssumption, AuditInv
  <1>2. k \in alive /\ k \in alive' /\ todo'[k] = todo[k] /\ proc'[k] = proc[k]
    BY <1>1 DEF KeeperInv, Alone, Others
  <1> QED BY <1>1, <1>2 DEF KeeperInv, Has, At

LEMMA StillKept ==
    ASSUME AuditInv, NEW f, Keeping(f), Keepsafe, \A a \in Afps : RefCount(a) = 0 \/ Grows(a)
    PROVE  Keeping(f)'
  <1>1. PICK k \in Keepers : proc[k].afp # Null /\ afp[proc[k].afp].file = f
    BY DEF Keeping
  <1>2. k \in Tasks /\ proc[k].afp \in Afps
    BY <1>1, AuditAssumption DEF AuditAssumption, AuditInv, Shape, ProcType
  <1>3. PICK a \in Afps : proc[k].afp = a
    BY <1>2
  <1>4. Grows(a) /\ proc'[k].afp = a
    BY <1>1, <1>2, <1>3, Points DEF Keepsafe
  <1> QED BY <1>1, <1>3, <1>4 DEF Grows, Keeping

(* Searches stay sound when nothing new is searched, found or made.           *)
LEMMA StillFound ==
    ASSUME AuditInv, Keepsafe, \A a \in Afps : RefCount(a) = 0 \/ Grows(a), used \subseteq used',
           \A a \in Afps : afp'[a].live => afp[a].live /\ afp'[a].file = afp[a].file,
           \A u \in Tasks : \A f : Getting(u, f)' => Getting(u, f),
           \A u \in Tasks : At(u, "take")' => \/ At(u, "take") /\ Arg(u)' = Arg(u)
                                              \/ \E k \in Keepers : proc'[k].afp = Arg(u)'
    PROVE  \A u \in Tasks : FindInv(u)'
  <1> SUFFICES ASSUME NEW u \in Tasks PROVE FindInv(u)'
    OBVIOUS
  <1>1. FindInv(u)
    BY DEF AuditInv
  <1>2. ASSUME NEW f \in Files, Getting(u, f)'
        PROVE  f \in used' /\ (Keeping(f)' \/ Fresh(u, f)')
    <2>1. f \in used' /\ (Keeping(f) \/ Fresh(u, f))
      BY <1>1, <1>2 DEF FindInv
    <2>2. Keeping(f) => Keeping(f)'
      BY StillKept
    <2>3. Fresh(u, f) => Fresh(u, f)'
      BY DEF Fresh
    <2> QED BY <2>1, <2>2, <2>3
  <1>3. ASSUME At(u, "take")' PROVE \E k \in Keepers : proc'[k].afp = Arg(u)'
    <2> SUFFICES ASSUME ~\E k \in Keepers : proc'[k].afp = Arg(u)' PROVE FALSE
      OBVIOUS
    <2>1. At(u, "take") /\ Arg(u)' = Arg(u)
      BY <1>3
    <2>2. PICK k \in Keepers : proc[k].afp = Arg(u)
      BY <1>1, <2>1 DEF FindInv
    <2>3. Arg(u) \in Afps
      BY <2>1, HeadStep DEF AuditInv, At, OnAfp
    <2>4. proc'[k].afp = proc[k].afp
      BY <2>2, <2>3, AuditAssumption DEF Keepsafe, AuditAssumption
    <2> QED BY <2>1, <2>2, <2>4
  <1> QED BY <1>2, <1>3 DEF FindInv

(* A step of a task preserves the invariant when it does so for the task, its *)
(* process and the audit files, and searches for nothing new.                 *)
Calm(a) ==
    /\ RefCount(a) = 0 \/ Grows(a)
    /\ afp'[a].live => afp[a].live /\ afp'[a].file = afp[a].file /\ (afp[a].destroy => afp'[a].destroy)

LEMMA Together ==
    ASSUME AuditInv, Shape', NEW t \in Tasks, Alone(t), TaskInv(t)',
           t \in Keepers => KeeperInv(t)',
           \A a \in Afps : AfpInv(a)' /\ (RefCount(a) = 0 \/ Grows(a)),
           \A u \in Tasks : FindInv(u)', OneAfp'
    PROVE  AuditInv'
  <1>1. \A u \in Tasks : TaskInv(u)'
    BY OtherTask
  <1>2. \A k \in Keepers : KeeperInv(k)'
    BY OtherKeeper
  <1> QED BY <1>1, <1>2 DEF AuditInv

LEMMA Preserved ==
    ASSUME AuditInv, Shape', NEW t \in Tasks, Alone(t), used \subseteq used', TaskInv(t)',
           t \in Keepers => KeeperInv(t)' /\ (proc[t].afp # Null => proc'[t].afp = proc[t].afp),
           \A a \in Afps : AfpInv(a)' /\ Calm(a),
           \A f : Getting(t, f)' => Getting(t, f),
           At(t, "take")' => \E k \in Keepers : proc'[k].afp = Arg(t)'
    PROVE  AuditInv'
  <1>3. Keepsafe
    BY OtherKeeper DEF Keepsafe
  <1>4. \A u \in Tasks : FindInv(u)'
    <2>1. \A u \in Tasks : \A f : Getting(u, f)' => Getting(u, f)
      <3> SUFFICES ASSUME NEW u \in Tasks, NEW f, Getting(u, f)' PROVE Getting(u, f)
        OBVIOUS
      <3>1. u # t => todo'[u] = todo[u]
        BY DEF Alone, Others
      <3> QED BY <3>1 DEF Getting
    <2>2. \A u \in Tasks : At(u, "take")' => \/ At(u, "take") /\ Arg(u)' = Arg(u)
                                             \/ \E k \in Keepers : proc'[k].afp = Arg(u)'
      <3> SUFFICES ASSUME NEW u \in Tasks, u # t, At(u, "take")' PROVE At(u, "take") /\ Arg(u)' = Arg(u)
        OBVIOUS
      <3>2. todo'[u] = todo[u]
        BY DEF Alone, Others
      <3> QED BY <3>2 DEF At, Arg
    <2> QED BY <1>3, <2>1, <2>2, StillFound DEF Calm
  <1>5. OneAfp'
    BY DEF AuditInv, OneAfp, Calm
  <1> QED BY <1>4, <1>5, Together DEF Calm

(* An audit file that stays in use, or is not touched.                        *)
Kept1(a) == afp'[a] = afp[a] /\ RefCount(a)' = RefCount(a)
Kept2(a) ==
    /\ afp[a].live /\ ~afp[a].destroy /\ afp'[a].live /\ ~afp'[a].destroy
    /\ afp'[a].refcnt # 0 /\ afp'[a].refcnt = RefCount(a)'
    /\ Grows(a)
    /\ ~afp'[a].werr => afp'[a].made = afp'[a].out + Len(afp'[a].buf)

LEMMA StillSound ==
    ASSUME AuditInv, NEW a \in Afps, Kept1(a) \/ Kept2(a), used \subseteq used',
           \A u \in Tasks : Destroying(u, a)' <=> Destroying(u, a)
    PROVE  AfpInv(a)' /\ Calm(a)
  <1>1. AfpInv(a) /\ afp[a] \in AfpType
    BY DEF AuditInv, Shape
  <1>2. CASE Kept1(a)
    <2>1. Calm(a)
      BY <1>1, <1>2 DEF Calm, Grows, Kept1, AfpType
    <2>2. AfpInv(a)'
      BY <1>1, <1>2 DEF AfpInv, Kept1
    <2> QED BY <2>1, <2>2
  <1>3. CASE Kept2(a)
    <2>1. Calm(a)
      BY <1>3 DEF Calm, Kept2, Grows
    <2>2. AfpInv(a)'
      BY <1>1, <1>3 DEF AfpInv, Kept2, Grows
    <2> QED BY <2>1, <2>2
  <1> QED BY <1>2, <1>3

(* Nothing is said of an audit file by steps that are not a destruction.      *)
LEMMA SameDestroyers ==
    ASSUME NEW t \in Tasks, Others(t), NEW a, Destroying(t, a)' <=> Destroying(t, a)
    PROVE  \A u \in Tasks : Destroying(u, a)' <=> Destroying(u, a)
  <1> SUFFICES ASSUME NEW u \in Tasks, u # t PROVE Destroying(u, a)' <=> Destroying(u, a)
    OBVIOUS
  <1>1. todo'[u] = todo[u]
    BY DEF Others
  <1> QED BY <1>1 DEF Destroying, At, Arg

(* The task after a step that calls for nothing and leaves its pointers.      *)
LEMMA DoneTask ==
    ASSUME AuditInv, Shape', NEW t \in Tasks, NEW p, At(t, p), Continue(t, <<>>), p \notin {"relethr", "new"},
           thr'[t].afp = thr[t].afp, thr'[t].active = thr[t].active, alive' = alive, mark' = mark,
           proc'[t].known = proc[t].known, proc'[t].afp = proc[t].afp,
           \A a \in Afps : RefCount(a) = 0 \/ Grows(a),
           p = "write" /\ Has(t, "reap") => (~afp'[thr[t].afp].werr => mark[t] <= afp'[thr[t].afp].out)
    PROVE  /\ TaskInv(t)' /\ (t \in Keepers => KeeperInv(t)')
           /\ \A f : Getting(t, f)' => Getting(t, f)
           /\ ~At(t, "take")' /\ ~At(t, "rele")' /\ ~At(t, "destroy")'
           /\ At(t, "swap")' <=> p = "hold"
           /\ Others(t)
  <1>1. Shape /\ TaskInv(t) /\ (t \in Keepers => KeeperInv(t)) /\ todo[t] # <<>>
    BY DEF AuditInv, At
  <1>2. /\ Moved(t)
        /\ \A q : Has(t, q)' => Has(t, q) /\ Before(p, q)
        /\ \A q : Has(t, q) /\ q # p => Has(t, q)'
        /\ \A f : Getting(t, f)' => Getting(t, f) /\ Before(p, "get")
        /\ At(t, "swap")' <=> p = "hold"
        /\ At(t, "reap")' => p = "write"
        /\ ~At(t, "rele")' /\ ~At(t, "destroy")' /\ ~At(t, "take")' /\ ~At(t, "append")'
    BY <1>1, Done
  <1>3. ~Before(p, "new")
    BY DEF Before, Purging
  <1>4. thr[t].afp \in Afps \cup {Null} /\ mark[t] \in Nat
    BY <1>1 DEF Shape, ThrType
  <1>5. thr[t].afp # Null => (mark[t] <= afp[thr[t].afp].made => mark[t] <= afp'[thr[t].afp].made)
    <2> SUFFICES ASSUME NEW a \in Afps, thr[t].afp = a, mark[t] <= afp[a].made PROVE mark[t] <= afp'[a].made
      BY <1>4
    <2>1. Grows(a) /\ afp[a].made \in Nat /\ afp'[a].made \in Nat
      BY Points DEF AuditInv, Shape, AfpType
    <2> QED BY <1>4, <2>1 DEF Grows
  <1>6. TaskInv(t)'
    <2>1. Ordered(todo'[t]) /\ Paired(todo'[t])
      BY <1>2 DEF Moved
    <2>2. (todo[t] # <<>> \/ thr[t].active => t \in alive)'
      BY <1>1 DEF TaskInv
    <2>3. (~thr[t].active \/ Has(t, "new") \/ Has(t, "snapshot") => thr[t].afp = Null)'
      BY <1>1, <1>2 DEF TaskInv
    <2>4. ((Has(t, "get") /\ ~Has(t, "relethr")) \/ At(t, "take") => thr[t].afp = Null)'
      BY <1>1, <1>2 DEF TaskInv
    <2>5. (Has(t, "write") \/ Has(t, "reap") \/ Has(t, "obsolete") \/ At(t, "append") => thr[t].afp # Null)'
      BY <1>1, <1>2 DEF TaskInv
    <2>6. (~proc[t].known => proc[t].afp = Null)' /\ (Has(t, "new") => ~proc[t].known)'
      BY <1>1, <1>2, <1>3 DEF TaskInv
    <2>10. (thr[t].active => At(t, "new") \/ proc[t].known)'
      <3>1. ~At(t, "new")
        BY DEF At
      <3> QED BY <1>1, <3>1 DEF TaskInv
    <2>7. (Has(t, "reap") \/ Has(t, "markerwrite") =>
             (thr[t].afp # Null => mark[t] <= afp[thr[t].afp].made))'
      BY <1>1, <1>2, <1>5 DEF TaskInv
    <2>8. (At(t, "reap") => (~afp[thr[t].afp].werr => mark[t] <= afp[thr[t].afp].out))'
      <3>1. ASSUME At(t, "reap")' PROVE Has(t, "reap")'
        <4>1. todo'[t] \in Seq(Steps) /\ todo'[t] # <<>> /\ Head(todo'[t]).do = "reap"
          BY <3>1 DEF Shape, At
        <4>2. Len(todo'[t]) # 0 /\ Len(todo'[t]) \in Nat /\ Head(todo'[t]) = todo'[t][1]
          BY <4>1, EmptySeq DEF Head
        <4> QED BY <4>1, <4>2 DEF Has
      <3> QED BY <1>1, <1>2, <3>1
    <2>9. (~thr[t].active => \A q \in StepNames : Has(t, q) => q = "destroy")'
      BY <1>1, <1>2 DEF TaskInv
    <2> QED BY <2>1, <2>2, <2>3, <2>4, <2>5, <2>6, <2>7, <2>8, <2>9, <2>10 DEF TaskInv
  <1>7. t \in Keepers => KeeperInv(t)'
    BY <1>1, <1>2 DEF KeeperInv
  <1> QED BY <1>2, <1>6, <1>7 DEF Moved

(* A step that touches no audit file and no pointer to one.                   *)
LEMMA PlainStep ==
    ASSUME AuditInv, Shape', NEW t \in Tasks, Alone(t), afp' = afp, used' = used, TaskInv(t)',
           \A u \in Tasks : thr'[u].afp = thr[u].afp /\ proc'[u].afp = proc[u].afp,
           \A u \in Tasks : u # t => proc'[u] = proc[u],
           t \in Keepers => KeeperInv(t)',
           \A f : Getting(t, f)' => Getting(t, f), ~At(t, "take")',
           ~At(t, "rele")', ~At(t, "rele"), ~At(t, "swap")', ~At(t, "swap"),
           ~At(t, "destroy")', ~At(t, "destroy")
    PROVE  AuditInv'
  <1>1. ASSUME NEW a \in Afps PROVE AfpInv(a)' /\ Calm(a)
    <2>1. RefCount(a)' = RefCount(a) - Own(t, a) + Own(t, a)' - Of(t, a) + Of(t, a)' /\ RefCount(a) \in Nat
      BY RefStep DEF Alone
    <2>2. Own(t, a)' = Own(t, a) /\ Of(t, a)' = Of(t, a) /\ Own(t, a) \in Nat /\ Of(t, a) \in Nat
      BY DEF Own, Of, One
    <2>3. Kept1(a)
      BY <2>1, <2>2 DEF Kept1
    <2>4. \A u \in Tasks : Destroying(u, a)' <=> Destroying(u, a)
      BY SameDestroyers DEF Destroying, Alone
    <2> QED BY <2>3, <2>4, StillSound
  <1> QED BY <1>1, Preserved

(* Such a step that calls for nothing.                                        *)
LEMMA PlainDone ==
    ASSUME AuditInv, NEW t \in Tasks, NEW p, At(t, p), Continue(t, <<>>),
           p \notin {"relethr", "rele", "destroy", "swap", "hold", "write", "new"},
           UNCHANGED <<afp, aflock, alive, mark, used, ops>>,
           proc' \in [Tasks -> ProcType], thr' \in [Tasks -> ThrType],
           \A u \in Tasks : thr'[u].afp = thr[u].afp /\ proc'[u].afp = proc[u].afp,
           thr'[t].active = thr[t].active, proc'[t].known = proc[t].known,
           \A u \in Tasks : u # t => proc'[u] = proc[u] /\ thr'[u] = thr[u]
    PROVE  AuditInv'
  <1>1. Shape /\ TaskInv(t)
    BY DEF AuditInv
  <1>2. todo' \in [Tasks -> Seq(Steps)] /\ Others(t)
    BY <1>1, Done DEF Moved
  <1>3. Shape'
    BY <1>1, <1>2 DEF Shape
  <1>4. \A a \in Afps : RefCount(a) = 0 \/ Grows(a)
    BY <1>1 DEF Grows, Shape, AfpType
  <1>5. /\ TaskInv(t)' /\ (t \in Keepers => KeeperInv(t)')
        /\ \A f : Getting(t, f)' => Getting(t, f)
        /\ ~At(t, "take")' /\ ~At(t, "rele")' /\ ~At(t, "destroy")' /\ ~At(t, "swap")'
    BY <1>3, <1>4, DoneTask
  <1>6. Alone(t)
    BY <1>2 DEF Alone
  <1>7. ~At(t, "rele") /\ ~At(t, "swap") /\ ~At(t, "destroy")
    BY DEF At
  <1> QED BY <1>3, <1>5, <1>6, <1>7, PlainStep

-----------------------------------------------------------------------------
(* The actions.                                                               *)
LEMMA ReapStep ==
    ASSUME AuditInv, NEW t \in Tasks, Reap(t) PROVE AuditInv'
  BY PlainDone DEF Reap, AuditInv, Shape

LEMMA AfpNewFailStep ==
    ASSUME AuditInv, NEW t \in Tasks, AfpNewFail(t) PROVE AuditInv'
  BY PlainDone DEF AfpNewFail, AuditInv, Shape

LEMMA AuditOffStep ==
    ASSUME AuditInv, NEW t \in Tasks, AuditOff(t) PROVE AuditInv'
  <1>1. thr \in [Tasks -> ThrType] /\ proc \in [Tasks -> ProcType]
    BY DEF AuditInv, Shape
  <1>2. thr' = [thr EXCEPT ![t].on = FALSE] /\ UNCHANGED proc
    BY DEF AuditOff
  <1>3. /\ thr' \in [Tasks -> ThrType] /\ thr'[t].active = thr[t].active
        /\ \A u \in Tasks : thr'[u].afp = thr[u].afp /\ (u # t => thr'[u] = thr[u])
    BY <1>1, <1>2 DEF ThrType
  <1> QED BY <1>1, <1>2, <1>3, PlainDone DEF AuditOff

LEMMA StartStep ==
    ASSUME AuditInv, NEW t \in Tasks, Start(t) PROVE AuditInv'
  <1>1. thr \in [Tasks -> ThrType] /\ proc \in [Tasks -> ProcType]
    BY DEF AuditInv, Shape
  <1>2. thr' = thr \/ thr' = [thr EXCEPT ![t].on = TRUE]
    BY DEF Start
  <1>3. proc' = proc \/ proc' = [proc EXCEPT ![t].on = TRUE]
    BY DEF Start
  <1>4. /\ thr' \in [Tasks -> ThrType] /\ thr'[t].active = thr[t].active
        /\ \A u \in Tasks : thr'[u].afp = thr[u].afp /\ (u # t => thr'[u] = thr[u])
    <2>1. CASE thr' = thr
      BY <1>1, <2>1
    <2>2. CASE thr' = [thr EXCEPT ![t].on = TRUE]
      BY <1>1, <2>2 DEF ThrType
    <2> QED BY <1>2, <2>1, <2>2
  <1>5. /\ proc' \in [Tasks -> ProcType] /\ proc'[t].known = proc[t].known
        /\ \A u \in Tasks : proc'[u].afp = proc[u].afp /\ (u # t => proc'[u] = proc[u])
    <2>1. CASE proc' = proc
      BY <1>1, <2>1
    <2>2. CASE proc' = [proc EXCEPT ![t].on = TRUE]
      BY <1>1, <2>2 DEF ProcType
    <2> QED BY <1>3, <2>1, <2>2
  <1> QED BY <1>4, <1>5, PlainDone DEF Start

LEMMA AuditCheckStep ==
    ASSUME AuditInv, NEW t \in Tasks, AuditCheck(t) PROVE AuditInv'
  <1>1. Shape /\ TaskInv(t) /\ (t \in Keepers => KeeperInv(t)) /\ todo[t] # <<>>
        /\ Head(todo[t]).do = "audit" /\ At(t, "audit")
    BY DEF AuditInv, AuditCheck, At
  <1>2. /\ UNCHANGED <<afp, aflock, proc, thr, alive, mark, used, ops>>
        /\ ~At(t, "rele") /\ ~At(t, "swap") /\ ~At(t, "destroy")
    BY <1>1 DEF AuditCheck, At
  <1>3. CASE Continue(t, <<>>)
    BY <1>1, <1>2, <1>3, PlainDone DEF Shape
  <1>4. ASSUME thr[t].afp # Null, Continue(t, <<Do("append", Arg(t))>>) PROVE AuditInv'
    <2>1. PICK x : x = Do("append", Arg(t))
      OBVIOUS
    <2>2. x.do = "append" /\ x \in Steps
      BY <1>1, <2>1, HeadStep DEF Do, Steps, OnRec
    <2>3. \A q \in StepNames : Before("audit", q) => Before(x.do, q) /\ q = "markerwrite"
      BY <2>2 DEF Before, Purging
    <2>4. /\ Moved(t)
          /\ \A q : Has(t, q)' => q = x.do \/ (Has(t, q) /\ Before("audit", q))
          /\ \A f : Getting(t, f)' => Getting(t, f) /\ Before("audit", "get")
          /\ \A q : At(t, q)' <=> q = x.do
      BY <1>1, <1>4, <2>1, <2>2, <2>3, Then
    <2>5. \A q \in StepNames : Has(t, q)' => q \in {"append", "markerwrite"}
      BY <2>2, <2>3, <2>4
    <2>6. Shape' /\ Alone(t)
      BY <1>1, <1>2, <2>4 DEF Shape, Moved, Alone
    <2>7. TaskInv(t)'
      <3>1. ~Has(t, "new")' /\ ~Has(t, "snapshot")' /\ ~Has(t, "get")' /\ ~Has(t, "reap")'
        BY <2>5 DEF StepNames
      <3>2. Has(t, "markerwrite")' => Has(t, "markerwrite")
        BY <2>2, <2>4
      <3>3. Ordered(todo'[t]) /\ Paired(todo'[t])
        BY <2>4 DEF Moved
      <3>4. ~At(t, "take")' /\ ~At(t, "reap")'
        BY <2>2, <2>4
      <3>5. thr[t].active
        BY <1>1, <1>4 DEF TaskInv
      <3>20. ~At(t, "new")
        BY <1>1 DEF At
      <3> QED BY <1>1, <1>2, <1>4, <3>1, <3>2, <3>3, <3>4, <3>5, <3>20 DEF TaskInv
    <2>8. t \notin Keepers
      BY <1>1, HeadStep DEF KeeperInv
    <2>9. /\ ~At(t, "take")' /\ ~At(t, "rele")' /\ ~At(t, "swap")' /\ ~At(t, "destroy")'
      BY <2>2, <2>4
    <2> QED BY <1>2, <2>4, <2>6, <2>7, <2>8, <2>9, PlainStep
  <1>5. ASSUME Continue(t, ReleThr \o <<Do("off", Null)>> \o Sync) PROVE AuditInv'
    <2>1. PICK add : add = ReleThr \o <<Do("off", Null)>> \o Sync
      OBVIOUS
    <2>2. IsList(add, {"relethr"} \cup {"off"} \cup {"hold", "swap"}, Do("relethr", Null), {})
      <3>1. /\ Do("relethr", Null) \in Steps /\ Do("off", Null) \in Steps
            /\ Do("hold", Null) \in Steps /\ Do("swap", Null) \in Steps
            /\ Do("relethr", Null).do = "relethr" /\ Do("off", Null).do = "off"
            /\ Do("hold", Null).do = "hold" /\ Do("swap", Null).do = "swap"
        BY DEF Do, Steps, Plain, OnAfp, OnRec, StepNames
      <3>2. IsList(ReleThr, {"relethr"}, Do("relethr", Null), {})
        BY <3>1, ListOne DEF ReleThr
      <3>3. IsList(<<Do("off", Null)>>, {"off"}, Do("off", Null), {})
        BY <3>1, ListOne
      <3>4. IsList(Sync, {"hold", "swap"}, Do("hold", Null), {})
        <4>1. Before("hold", "swap")
          BY DEF Before, Purging
        <4> QED BY <3>1, <4>1, ListTwo DEF Sync
      <3>5. IsList(ReleThr \o <<Do("off", Null)>>, {"relethr"} \cup {"off"}, Do("relethr", Null), {})
        <4>1. \A p \in {"relethr"} : \A q \in {"off"} : Before(p, q)
          BY DEF Before, Purging
        <4> QED BY <3>1, <3>2, <3>3, <4>1, ListJoin
      <3>6. \A p \in {"relethr"} \cup {"off"} : \A q \in {"hold", "swap"} : Before(p, q)
        BY DEF Before, Purging
      <3>7. Do("hold", Null).do \notin {"swap", "reap"}
        BY <3>1
      <3> QED BY <2>1, <3>4, <3>5, <3>6, <3>7, ListJoin
    <2>3. /\ add \in Seq(Steps) /\ add # <<>> /\ add[1] = Do("relethr", Null) /\ Ordered(add) /\ Paired(add)
          /\ \A i \in 1 .. Len(add) : add[i].do \in {"relethr", "off", "hold", "swap"}
          /\ \E i \in 1 .. Len(add) : add[i].do = "relethr"
      BY <2>2 DEF IsList
    <2>4. \A q \in StepNames : Before("audit", q) => q = "markerwrite"
      BY DEF Before, Purging
    <2>5. \A q \in {"relethr", "off", "hold", "swap"} : Before(q, "markerwrite")
      BY DEF Before, Purging
    <2>6. \A j \in 1 .. Len(add) : \A q \in StepNames : Before("audit", q) => Before(add[j].do, q)
      BY <2>3, <2>4, <2>5
    <2>7. Continued(t, add, "audit")
      <3>1. Continue(t, add) /\ Ordered(todo[t]) /\ Paired(todo[t])
        BY <1>1, <1>5, <2>1 DEF TaskInv
      <3> QED BY <1>1, <2>3, <2>6, <3>1, Continues
    <2>8. Moved(t) /\ todo'[t] # <<>> /\ Head(todo'[t]) = Do("relethr", Null)
      BY <2>3, <2>7 DEF Continued, Moved
    <2>9. \A q \in StepNames : Has(t, q)' => q \in {"relethr", "off", "hold", "swap", "markerwrite"}
      BY <2>3, <2>4, <2>7 DEF Continued
    <2>10. Has(t, "markerwrite")' => Has(t, "markerwrite")
      BY <2>3, <2>7 DEF Continued
    <2>11. \A q : At(t, q)' <=> q = "relethr"
      BY <2>8 DEF At, Do
    <2>12. \A f : ~Getting(t, f)'
      <3> SUFFICES ASSUME NEW f, Getting(t, f)' PROVE FALSE
        OBVIOUS
      <3>1. Has(t, "get")'
        BY DEF Getting, Has, Do
      <3> QED BY <2>9, <3>1 DEF StepNames
    <2>13. Shape' /\ Alone(t)
      BY <1>1, <1>2, <2>8 DEF Shape, Moved, Alone
    <2>14. TaskInv(t)'
      <3>1. /\ ~Has(t, "new")' /\ ~Has(t, "snapshot")' /\ ~Has(t, "get")' /\ ~Has(t, "reap")'
            /\ ~Has(t, "write")' /\ ~Has(t, "obsolete")'
        BY <2>9 DEF StepNames
      <3>2. Ordered(todo'[t]) /\ Paired(todo'[t])
        BY <2>8 DEF Moved
      <3>3. ~At(t, "take")' /\ ~At(t, "reap")' /\ ~At(t, "append")'
        BY <2>11
      <3>4. thr[t].active
        BY <1>1, HeadStep DEF TaskInv, StepNames
      <3>20. ~At(t, "new")
        BY <1>1 DEF At
      <3> QED BY <1>1, <1>2, <2>10, <3>1, <3>2, <3>3, <3>4, <3>20 DEF TaskInv
    <2>15. t \notin Keepers
      BY <1>1, HeadStep DEF KeeperInv
    <2>16. /\ ~At(t, "take")' /\ ~At(t, "rele")' /\ ~At(t, "swap")' /\ ~At(t, "destroy")'
      BY <2>11
    <2> QED BY <1>2, <2>12, <2>13, <2>14, <2>15, <2>16, PlainStep
  <1> QED BY <1>3, <1>4, <1>5 DEF AuditCheck

LEMMA MarkerWriteStep ==
    ASSUME AuditInv, NEW t \in Tasks, MarkerWrite(t) PROVE AuditInv'
  <1>1. Shape /\ TaskInv(t) /\ (t \in Keepers => KeeperInv(t)) /\ todo[t] # <<>>
        /\ Head(todo[t]).do = "markerwrite" /\ At(t, "markerwrite")
    BY DEF AuditInv, MarkerWrite, At
  <1>2. /\ UNCHANGED <<afp, aflock, proc, thr, alive, mark, used, ops>>
        /\ ~At(t, "rele") /\ ~At(t, "swap") /\ ~At(t, "destroy")
    BY <1>1 DEF MarkerWrite, At
  <1>3. CASE thr[t].afp = Null
    <2>1. Continue(t, <<>>)
      BY <1>3 DEF MarkerWrite
    <2> QED BY <1>1, <1>2, <2>1, PlainDone DEF Shape
  <1>4. CASE thr[t].afp # Null
    <2>1. PICK x, y : x = Do("write", Null) /\ y = Do("reap", Null)
      OBVIOUS
    <2>2. x.do = "write" /\ x \in Steps /\ y.do = "reap" /\ y \in Steps /\ Continue(t, <<x, y>>)
      BY <1>4, <2>1 DEF Do, Steps, Plain, OnAfp, OnRec, StepNames, MarkerWrite
    <2>3. (\A q \in StepNames : ~Before("markerwrite", q)) /\ Before("write", "reap") /\ ~Before("markerwrite", "get")
      BY DEF Before, Purging
    <2>4. /\ Moved(t)
          /\ \A q : Has(t, q)' => q = x.do \/ q = y.do \/ (Has(t, q) /\ Before("markerwrite", q))
          /\ \A f : Getting(t, f)' => Getting(t, f) /\ Before("markerwrite", "get")
          /\ \A q : At(t, q)' <=> q = x.do
      BY <1>1, <2>2, <2>3, ThenBoth
    <2>5. \A q \in StepNames : Has(t, q)' => q \in {"write", "reap"}
      BY <2>2, <2>3, <2>4
    <2>6. Shape' /\ Alone(t)
      BY <1>1, <1>2, <2>4 DEF Shape, Moved, Alone
    <2>7. /\ ~Has(t, "new")' /\ ~Has(t, "snapshot")' /\ ~Has(t, "get")' /\ ~Has(t, "obsolete")'
          /\ ~Has(t, "hold")' /\ ~Has(t, "swap")' /\ ~Has(t, "audit")'
      BY <2>5 DEF StepNames
    <2>8. /\ ~At(t, "take")' /\ ~At(t, "rele")' /\ ~At(t, "swap")' /\ ~At(t, "destroy")'
          /\ ~At(t, "append")' /\ ~At(t, "reap")'
      BY <2>2, <2>4
    <2>9. TaskInv(t)'
      <3>1. thr[t].active
        BY <1>1, <1>4 DEF TaskInv
      <3>2. Ordered(todo'[t]) /\ Paired(todo'[t])
        BY <2>4 DEF Moved
      <3>3. mark[t] <= afp[thr[t].afp].made
        BY <1>1, <1>4, HeadStep DEF TaskInv
      <3>20. ~At(t, "new")
        BY <1>1 DEF At
      <3> QED BY <1>1, <1>2, <1>4, <2>7, <2>8, <3>1, <3>2, <3>3, <3>20 DEF TaskInv
    <2>10. t \in Keepers => KeeperInv(t)'
      BY <1>1, <1>2, <2>7, <2>8 DEF KeeperInv
    <2> QED BY <1>2, <2>4, <2>6, <2>8, <2>9, <2>10, PlainStep
  <1> QED BY <1>3, <1>4

(* A step that writes to the audit file of the thread.                        *)
LEMMA ContentStep ==
    ASSUME AuditInv, NEW t \in Tasks, NEW p \in {"write", "append", "obsolete"}, At(t, p),
           Continue(t, <<>>), NEW a \in Afps, thr[t].afp = a, NEW r \in AfpType,
           afp' = [afp EXCEPT ![a] = r],
           r.live = afp[a].live, r.destroy = afp[a].destroy, r.refcnt = afp[a].refcnt, r.file = afp[a].file,
           afp[a].made <= r.made, afp[a].out <= r.out, afp[a].werr => r.werr,
           ~r.werr => r.made = r.out + Len(r.buf),
           p = "write" /\ Has(t, "reap") => (~r.werr => mark[t] <= r.out),
           UNCHANGED <<aflock, proc, thr, alive, mark, used, ops>>
    PROVE  AuditInv'
  <1>1. Shape /\ TaskInv(t) /\ afp \in [Afps -> AfpType]
    BY DEF AuditInv, Shape
  <1>2. Moved(t)
    BY <1>1, Done
  <1>3. Shape'
    BY <1>1, <1>2 DEF Shape, Moved
  <1>4. Alone(t)
    BY <1>2 DEF Alone, Moved
  <1>5. ASSUME NEW b \in Afps PROVE (b = a => afp'[b] = r /\ Grows(b)) /\ (b # a => afp'[b] = afp[b] /\ Grows(b))
    BY <1>1 DEF Grows, AfpType
  <1>6. /\ TaskInv(t)' /\ (t \in Keepers => KeeperInv(t)')
        /\ \A f : Getting(t, f)' => Getting(t, f)
        /\ ~At(t, "take")' /\ ~At(t, "rele")' /\ ~At(t, "destroy")' /\ ~At(t, "swap")'
    <2>1. p = "write" /\ Has(t, "reap") => (~afp'[thr[t].afp].werr => mark[t] <= afp'[thr[t].afp].out)
      BY <1>5
    <2>2. p \notin {"relethr", "new"} /\ p # "hold"
      OBVIOUS
    <2> QED BY <1>3, <1>5, <2>1, <2>2, DoneTask
  <1>7. ~At(t, "rele") /\ ~At(t, "swap") /\ ~At(t, "destroy")
    BY DEF At
  <1>8. ASSUME NEW b \in Afps PROVE AfpInv(b)' /\ Calm(b)
    <2>1. RefCount(b)' = RefCount(b) - Own(t, b) + Own(t, b)' - Of(t, b) + Of(t, b)' /\ RefCount(b) \in Nat
      BY <1>4, RefStep DEF Alone
    <2>2. Own(t, b)' = Own(t, b) /\ Of(t, b)' = Of(t, b) /\ Own(t, b) \in Nat /\ Of(t, b) \in Nat
      BY <1>6, <1>7 DEF Own, Of, One
    <2>3. RefCount(b)' = RefCount(b)
      BY <2>1, <2>2
    <2>4. \A u \in Tasks : Destroying(u, b)' <=> Destroying(u, b)
      BY <1>4, <1>6, <1>7, SameDestroyers DEF Destroying, Alone
    <2>5. Kept1(b) \/ Kept2(b)
      <3>1. CASE b # a
        BY <1>5, <2>3, <3>1 DEF Kept1
      <3>2. CASE b = a
        <4>1. afp[a].live /\ ~afp[a].destroy /\ afp[a].refcnt = RefCount(a) /\ afp[a].refcnt # 0
          BY Points
        <4> QED BY <1>5, <2>3, <3>2, <4>1 DEF Kept2
      <3> QED BY <3>1, <3>2
    <2> QED BY <2>4, <2>5, StillSound
  <1> QED BY <1>3, <1>4, <1>6, <1>8, Preserved

LEMMA ThrAfp ==
    ASSUME AuditInv, NEW t \in Tasks, NEW p, At(t, p), p \in {"write", "reap", "obsolete", "append"}
    PROVE  thr[t].afp \in Afps
  <1>1. Shape /\ TaskInv(t) /\ Has(t, p)
    BY HeadStep DEF AuditInv, At
  <1>2. thr[t].afp # Null
    BY <1>1 DEF TaskInv
  <1> QED BY <1>1, <1>2 DEF Shape, ThrType

LEMMA ObsoleteStep ==
    ASSUME AuditInv, NEW t \in Tasks, Obsolete(t) PROVE AuditInv'
  <1>1. PICK a \in Afps : thr[t].afp = a
    BY ThrAfp DEF Obsolete
  <1>2. afp[a] \in AfpType /\ afp \in [Afps -> AfpType] /\ AfpInv(a) /\ afp[a].live
    BY <1>1, Points DEF AuditInv, Shape
  <1>3. PICK r : r = [afp[a] EXCEPT !.obsolete = TRUE]
    OBVIOUS
  <1>4. /\ r \in AfpType /\ r.live = afp[a].live /\ r.destroy = afp[a].destroy /\ r.refcnt = afp[a].refcnt
        /\ r.file = afp[a].file /\ r.made = afp[a].made /\ r.out = afp[a].out /\ r.werr = afp[a].werr
        /\ r.buf = afp[a].buf /\ r.made \in Nat /\ r.out \in Nat
    BY <1>2, <1>3 DEF AfpType
  <1>5. afp' = [afp EXCEPT ![a] = r]
    BY <1>1, <1>2, <1>3 DEF Obsolete
  <1>6. afp[a].made <= r.made /\ afp[a].out <= r.out /\ (~r.werr => r.made = r.out + Len(r.buf))
    BY <1>2, <1>4 DEF AfpInv
  <1>7. /\ At(t, "obsolete") /\ Continue(t, <<>>)
        /\ UNCHANGED <<aflock, proc, thr, alive, mark, used, ops>>
    BY DEF Obsolete
  <1> QED BY <1>1, <1>4, <1>5, <1>6, <1>7, ContentStep

LEMMA WriteLeaves ==
    ASSUME NEW a \in Afps, afp[a] \in AfpType, NEW r \in Written(a),
           ~afp[a].werr => afp[a].made = afp[a].out + Len(afp[a].buf)
    PROVE  /\ r \in AfpType /\ r.live = afp[a].live /\ r.destroy = afp[a].destroy
           /\ r.refcnt = afp[a].refcnt /\ r.file = afp[a].file /\ r.obsolete = afp[a].obsolete
           /\ r.buf = <<>> /\ r.made = afp[a].made /\ afp[a].out <= r.out
           /\ (afp[a].werr => r.werr) /\ (~r.werr => r.made = r.out)
  <1> DEFINE n == Len(afp[a].buf)
  <1>1. n \in Nat /\ <<>> \in Seq(Objs \cup {"MARKER"}) /\ afp[a].made \in Nat /\ afp[a].out \in Nat
    BY DEF AfpType
  <1> HIDE DEF n
  <1>2. PICK clean : clean = [afp[a] EXCEPT !.buf = <<>>]
    OBVIOUS
  <1>3. /\ clean \in AfpType /\ clean.live = afp[a].live /\ clean.destroy = afp[a].destroy
        /\ clean.refcnt = afp[a].refcnt /\ clean.file = afp[a].file /\ clean.obsolete = afp[a].obsolete
        /\ clean.buf = <<>> /\ clean.made = afp[a].made /\ clean.out = afp[a].out /\ clean.werr = afp[a].werr
    BY <1>1, <1>2 DEF AfpType
  <1>4. CASE afp[a].werr \/ n = 0
    <2>1. r = clean
      BY <1>2, <1>4 DEF Written, n
    <2> QED BY <1>1, <1>3, <1>4, <2>1 DEF n
  <1>5. CASE ~(afp[a].werr \/ n = 0)
    <2>1. \/ r = [clean EXCEPT !.out = @ + n]
          \/ \E k \in 0 .. n : r = [clean EXCEPT !.out = @ + k, !.werr = TRUE]
      BY <1>2, <1>5 DEF Written, n
    <2>2. CASE r = [clean EXCEPT !.out = @ + n]
      <3>1. /\ r.out = clean.out + n /\ r.made = clean.made /\ r.buf = clean.buf /\ r.werr = clean.werr
            /\ r.live = clean.live /\ r.destroy = clean.destroy /\ r.refcnt = clean.refcnt
            /\ r.file = clean.file /\ r.obsolete = clean.obsolete /\ r \in AfpType
        BY <1>1, <1>3, <2>2 DEF AfpType
      <3> QED BY <1>1, <1>3, <1>5, <3>1 DEF n
    <2>3. CASE \E k \in 0 .. n : r = [clean EXCEPT !.out = @ + k, !.werr = TRUE]
      <3>1. PICK k \in 0 .. n : r = [clean EXCEPT !.out = @ + k, !.werr = TRUE]
        BY <2>3
      <3>0. clean.out + k \in Nat /\ afp[a].out <= clean.out + k
        BY <1>1, <1>3
      <3>2. /\ r.out = clean.out + k /\ r.made = clean.made /\ r.buf = clean.buf /\ r.werr
            /\ r.live = clean.live /\ r.destroy = clean.destroy /\ r.refcnt = clean.refcnt
            /\ r.file = clean.file /\ r.obsolete = clean.obsolete /\ r \in AfpType
        BY <1>1, <1>3, <3>0, <3>1 DEF AfpType
      <3> QED BY <1>3, <3>0, <3>2
    <2> QED BY <2>1, <2>2, <2>3
  <1> QED BY <1>4, <1>5

LEMMA WriteStep ==
    ASSUME AuditInv, NEW t \in Tasks, Write(t) PROVE AuditInv'
  <1>1. PICK a \in Afps : thr[t].afp = a
    BY ThrAfp DEF Write
  <1>2. afp[a] \in AfpType /\ AfpInv(a) /\ afp[a].live /\ mark[t] \in Nat /\ TaskInv(t)
    BY <1>1, Points DEF AuditInv, Shape
  <1>3. PICK r \in Written(a) : afp' = [afp EXCEPT ![a] = r]
    BY <1>1 DEF Write
  <1>4. /\ r \in AfpType /\ r.live = afp[a].live /\ r.destroy = afp[a].destroy
        /\ r.refcnt = afp[a].refcnt /\ r.file = afp[a].file
        /\ r.buf = <<>> /\ r.made = afp[a].made /\ afp[a].out <= r.out
        /\ (afp[a].werr => r.werr) /\ (~r.werr => r.made = r.out)
    BY <1>2, WriteLeaves DEF AfpInv
  <1>5. afp[a].made <= r.made /\ (~r.werr => r.made = r.out + Len(r.buf))
    BY <1>2, <1>4 DEF AfpType
  <1>6. Has(t, "reap") => (~r.werr => mark[t] <= r.out)
    <2>1. Has(t, "reap") => mark[t] <= afp[a].made
      BY <1>1, <1>2, AuditAssumption DEF TaskInv, AuditAssumption
    <2> QED BY <1>4, <2>1
  <1>7. /\ At(t, "write") /\ Continue(t, <<>>)
        /\ UNCHANGED <<aflock, proc, thr, alive, mark, used, ops>>
    BY DEF Write
  <1> QED BY <1>1, <1>3, <1>4, <1>5, <1>6, <1>7, ContentStep

LEMMA AppendRecStep ==
    ASSUME AuditInv, NEW t \in Tasks, AppendRec(t) PROVE AuditInv'
  <1>1. PICK a \in Afps : thr[t].afp = a
    BY ThrAfp DEF AppendRec
  <1>2. /\ afp[a] \in AfpType /\ AfpInv(a) /\ afp[a].live /\ Shape /\ TaskInv(t)
        /\ afp[a].made \in Nat /\ afp[a].out \in Nat /\ afp[a].buf \in Seq(Objs \cup {"MARKER"})
    BY <1>1, Points DEF AuditInv, Shape, AfpType
  <1>3. /\ At(t, "append") /\ todo[t] # <<>> /\ Head(todo[t]).do = "append"
        /\ UNCHANGED <<aflock, proc, thr, alive, mark, used, ops>>
    BY DEF AppendRec, At
  <1>4. PICK rec \in Objs \cup {"MARKER"} : rec = Arg(t)
    BY <1>2, <1>3, HeadStep DEF OnRec
  <1>5. ~At(t, "rele") /\ ~At(t, "swap") /\ ~At(t, "destroy")
    BY <1>3 DEF At
  <1>6. thr \in [Tasks -> ThrType] /\ proc \in [Tasks -> ProcType]
    BY <1>2 DEF Shape
  <1>7. CASE Continue(t, <<>>) /\ UNCHANGED afp
    BY <1>3, <1>6, <1>7, PlainDone
  <1>8. CASE Continue(t, <<>>) /\ afp' = [afp EXCEPT ![a].werr = TRUE]
    <2>1. PICK r : r = [afp[a] EXCEPT !.werr = TRUE]
      OBVIOUS
    <2>2. /\ r \in AfpType /\ r.live = afp[a].live /\ r.destroy = afp[a].destroy
          /\ r.refcnt = afp[a].refcnt /\ r.file = afp[a].file /\ r.made = afp[a].made
          /\ r.out = afp[a].out /\ r.werr
      BY <1>2, <2>1 DEF AfpType
    <2>3. afp' = [afp EXCEPT ![a] = r] /\ afp[a].made <= r.made /\ afp[a].out <= r.out
      BY <1>2, <1>8, <2>1, <2>2 DEF Shape
    <2>4. Continue(t, <<>>) /\ "append" \in {"write", "append", "obsolete"}
      BY <1>8
    <2> HIDE <1>8
    <2> QED BY <1>1, <1>3, <2>2, <2>3, <2>4, ContentStep
  <1>9. CASE /\ Continue(t, <<>>) /\ ~afp[a].werr
             /\ afp' = [afp EXCEPT ![a] = [afp[a] EXCEPT !.buf = Append(afp[a].buf, rec),
                                                         !.made = afp[a].made + 1]]
    <2>1. PICK buf : buf = Append(afp[a].buf, rec)
      OBVIOUS
    <2>2. buf \in Seq(Objs \cup {"MARKER"}) /\ Len(buf) = Len(afp[a].buf) + 1 /\ Len(afp[a].buf) \in Nat
      BY <1>2, <2>1, AppendProperties
    <2>3. PICK r : r = [afp[a] EXCEPT !.buf = buf, !.made = afp[a].made + 1]
      OBVIOUS
    <2>4. /\ r \in AfpType /\ r.live = afp[a].live /\ r.destroy = afp[a].destroy
          /\ r.refcnt = afp[a].refcnt /\ r.file = afp[a].file /\ r.made = afp[a].made + 1
          /\ r.out = afp[a].out /\ r.werr = afp[a].werr /\ r.buf = buf
      <3>1. afp[a].made + 1 \in Nat /\ buf \in Seq(Objs \cup {"MARKER"})
        BY <1>2, <2>2
      <3>2. PICK m \in Nat : m = afp[a].made + 1
        BY <3>1
      <3> HIDE <2>1
      <3>3. r = [afp[a] EXCEPT !.buf = buf, !.made = m]
        BY <2>3, <3>2, Zenon
      <3>4. afp[a] \in AfpType
        BY <1>2
      <3>5. /\ r \in AfpType /\ r.live = afp[a].live /\ r.destroy = afp[a].destroy
            /\ r.refcnt = afp[a].refcnt /\ r.file = afp[a].file /\ r.made = m
            /\ r.out = afp[a].out /\ r.werr = afp[a].werr /\ r.buf = buf
        <4> HIDE <3>2, <2>3
        <4> QED BY <3>1, <3>3, <3>4 DEF AfpType
      <3> QED BY <3>2, <3>5
    <2>5. afp[a].made = afp[a].out + Len(afp[a].buf)
      BY <1>2, <1>9 DEF AfpInv
    <2>6. r.made = r.out + Len(r.buf)
      <3>1. PICK m \in Nat, o \in Nat, l \in Nat : m = afp[a].made /\ o = afp[a].out /\ l = Len(afp[a].buf)
        BY <1>2, <2>2
      <3>2. m = o + l
        BY <2>5, <3>1
      <3>3. r.made = m + 1 /\ r.out = o /\ Len(r.buf) = l + 1
        BY <2>2, <2>4, <3>1
      <3> HIDE <2>2, <2>4, <2>5, <3>1
      <3> QED BY <3>2, <3>3
    <2>7. afp[a].made <= r.made /\ afp[a].out <= r.out
      BY <1>2, <2>4
    <2>8. afp' = [afp EXCEPT ![a] = r]
      BY <1>9, <2>1, <2>3, Zenon
    <2>9. Continue(t, <<>>) /\ "append" \in {"write", "append", "obsolete"}
      BY <1>9
    <2> HIDE <1>9
    <2> QED BY <1>1, <1>3, <2>4, <2>6, <2>7, <2>8, <2>9, ContentStep
  <1>10. CASE Continue(t, <<Do("write", Null), Do("audit", rec)>>) /\ UNCHANGED afp
    <2>1. PICK x, y : x = Do("write", Null) /\ y = Do("audit", rec)
      OBVIOUS
    <2>2. x.do = "write" /\ x \in Steps /\ y.do = "audit" /\ y \in Steps /\ Continue(t, <<x, y>>)
      BY <1>10, <2>1 DEF Do, Steps, Plain, OnAfp, OnRec, StepNames
    <2>3. \A q \in StepNames : Before("append", q) => q = "markerwrite"
      BY DEF Before, Purging
    <2>4. /\ Before("write", "audit") /\ ~Before("append", "get") /\ Before("write", "markerwrite")
          /\ Before("audit", "markerwrite")
      BY DEF Before, Purging
    <2>5. \A q \in StepNames : Before("append", q) => Before(x.do, q) /\ Before(y.do, q)
      BY <2>2, <2>3, <2>4
    <2>6. /\ Moved(t)
          /\ \A q : Has(t, q)' => q = x.do \/ q = y.do \/ (Has(t, q) /\ Before("append", q))
          /\ \A f : Getting(t, f)' => Getting(t, f) /\ Before("append", "get")
          /\ \A q : At(t, q)' <=> q = x.do
      BY <1>2, <1>3, <2>2, <2>4, <2>5, ThenBoth
    <2>7. \A q \in StepNames : Has(t, q)' => q \in {"write", "audit", "markerwrite"}
      BY <2>2, <2>3, <2>6
    <2>8. Shape' /\ Alone(t)
      BY <1>2, <1>3, <1>10, <2>6 DEF Shape, Moved, Alone
    <2>9. /\ ~Has(t, "new")' /\ ~Has(t, "snapshot")' /\ ~Has(t, "get")' /\ ~Has(t, "obsolete")'
          /\ ~Has(t, "reap")'
      BY <2>7 DEF StepNames
    <2>10. /\ ~At(t, "take")' /\ ~At(t, "rele")' /\ ~At(t, "swap")' /\ ~At(t, "destroy")'
           /\ ~At(t, "append")' /\ ~At(t, "reap")'
      BY <2>2, <2>6
    <2>11. TaskInv(t)'
      <3>1. thr[t].active /\ thr[t].afp # Null
        BY <1>1, <1>2, AuditAssumption DEF TaskInv, AuditAssumption
      <3>2. Ordered(todo'[t]) /\ Paired(todo'[t])
        BY <2>6 DEF Moved
      <3>3. Has(t, "markerwrite")' => Has(t, "markerwrite")
        BY <2>2, <2>6
      <3>20. ~At(t, "new")
        BY <1>3 DEF At
      <3> QED BY <1>2, <1>3, <1>10, <2>9, <2>10, <3>1, <3>2, <3>3, <3>20 DEF TaskInv
    <2>12. t \notin Keepers
      BY <1>3 DEF AuditInv, KeeperInv
    <2> QED BY <1>3, <1>5, <1>10, <2>6, <2>8, <2>10, <2>11, <2>12, PlainStep
  <1> QED
    <2>1. Arg(t) = rec /\ thr[t].afp = a
      BY <1>1, <1>4
    <2> HIDE DEF IsDupl, Used, RecSize
    <2> QED BY <1>7, <1>8, <1>9, <1>10, <2>1, Zenon DEF AppendRec

-----------------------------------------------------------------------------
(* Taking a reference to c, if it is not Null.                                *)
Takes(c) ==
    /\ afp' \in [Afps -> AfpType]
    /\ \A b \in Afps : b # c => afp'[b] = afp[b]
    /\ c \in Afps => /\ afp'[c].refcnt = afp[c].refcnt + 1 /\ afp'[c].live = afp[c].live
                     /\ afp'[c].destroy = afp[c].destroy /\ afp'[c].file = afp[c].file
                     /\ afp'[c].buf = afp[c].buf /\ afp'[c].werr = afp[c].werr
                     /\ afp'[c].made = afp[c].made /\ afp'[c].out = afp[c].out

LEMMA HoldTakes ==
    ASSUME Shape, NEW c \in Afps \cup {Null}, afp' = Hold(c)
    PROVE  Takes(c)
  <1>1. afp \in [Afps -> AfpType]
    BY DEF Shape
  <1>2. CASE c = Null
    BY <1>1, <1>2, AuditAssumption DEF Hold, Takes, AuditAssumption
  <1>3. CASE c # Null
    <2>1. PICK r : r = [afp[c] EXCEPT !.refcnt = afp[c].refcnt + 1]
      OBVIOUS
    <2>2. /\ r \in AfpType /\ r.live = afp[c].live /\ r.destroy = afp[c].destroy
          /\ r.refcnt = afp[c].refcnt + 1 /\ r.file = afp[c].file /\ r.made = afp[c].made
          /\ r.out = afp[c].out /\ r.werr = afp[c].werr /\ r.buf = afp[c].buf
      <3>1. afp[c] \in AfpType
        BY <1>1, <1>3
      <3>2. PICK m \in Nat : m = afp[c].refcnt + 1
        BY <3>1 DEF AfpType
      <3>3. r = [afp[c] EXCEPT !.refcnt = m]
        BY <2>1, <3>2, Zenon
      <3>4. /\ r \in AfpType /\ r.live = afp[c].live /\ r.destroy = afp[c].destroy
            /\ r.refcnt = m /\ r.file = afp[c].file /\ r.made = afp[c].made
            /\ r.out = afp[c].out /\ r.werr = afp[c].werr /\ r.buf = afp[c].buf
        <4> HIDE <2>1, <3>2
        <4> QED BY <3>1, <3>3 DEF AfpType
      <3> QED BY <3>2, <3>4
    <2>3. afp' = [afp EXCEPT ![c] = r]
      BY <1>3, <2>1, Zenon DEF Hold
    <2> QED BY <1>1, <1>3, <2>2, <2>3 DEF Takes
  <1> QED BY <1>2, <1>3

LEMMA Held ==
    ASSUME AuditInv, NEW t \in Tasks, NEW c \in Afps \cup {Null}, Takes(c), Others(t),
           \A u \in Tasks : u # t => thr'[u] = thr[u] /\ proc'[u] = proc[u],
           used' = used,
           c # Null => \E u \in Tasks : thr[u].afp = c \/ proc[u].afp = c,
           \A b \in Afps : Own(t, b)' + Of(t, b)' = Own(t, b) + Of(t, b) + One(b = c),
           ~At(t, "destroy"), ~At(t, "destroy")'
    PROVE  \A b \in Afps : AfpInv(b)' /\ Calm(b)
  <1> SUFFICES ASSUME NEW b \in Afps PROVE AfpInv(b)' /\ Calm(b)
    OBVIOUS
  <1>1. /\ RefCount(b)' = RefCount(b) - Own(t, b) + Own(t, b)' - Of(t, b) + Of(t, b)'
        /\ RefCount(b) \in Nat /\ RefCount(b)' \in Nat
    BY RefStep
  <1>2. /\ Own(t, b) \in Nat /\ Of(t, b) \in Nat /\ Own(t, b)' \in Nat /\ Of(t, b)' \in Nat
        /\ One(b = c) = IF b = c THEN 1 ELSE 0
    BY DEF Own, Of, One
  <1>3. RefCount(b)' = RefCount(b) + One(b = c)
    <2>1. Own(t, b)' + Of(t, b)' = Own(t, b) + Of(t, b) + One(b = c)
      OBVIOUS
    <2> QED BY <1>1, <1>2, <2>1
  <1>4. \A u \in Tasks : Destroying(u, b)' <=> Destroying(u, b)
    BY SameDestroyers DEF Destroying
  <1>5. CASE b # c
    BY <1>1, <1>2, <1>3, <1>4, <1>5, StillSound DEF Kept1, Takes
  <1>6. CASE b = c
    <2>1. c # Null
      BY <1>6, AuditAssumption DEF AuditAssumption
    <2>2. PICK u \in Tasks : thr[u].afp = c \/ proc[u].afp = c
      BY <2>1
    <2>3. afp[b].live /\ ~afp[b].destroy /\ afp[b].refcnt = RefCount(b)
      BY <1>6, <2>2, Points
    <2>4. AfpInv(b) /\ afp[b].made \in Nat /\ afp[b].out \in Nat /\ afp'[b] \in AfpType
      BY DEF AuditInv, Shape, AfpType, Takes
    <2>5. afp'[b].refcnt = RefCount(b)' /\ afp'[b].refcnt # 0
      BY <1>1, <1>2, <1>3, <1>6, <2>3 DEF Takes
    <2>6. Grows(b) /\ (~afp'[b].werr => afp'[b].made = afp'[b].out + Len(afp'[b].buf))
      BY <1>6, <2>3, <2>4 DEF Takes, Grows, AfpInv
    <2>7. Kept2(b)
      BY <1>6, <2>3, <2>5, <2>6 DEF Kept2, Takes
    <2> QED BY <1>4, <2>7, StillSound
  <1> QED BY <1>5, <1>6

LEMMA SyncHoldStep ==
    ASSUME AuditInv, NEW t \in Tasks, SyncHold(t) PROVE AuditInv'
  <1>1. /\ Shape /\ TaskInv(t) /\ At(t, "hold") /\ Continue(t, <<>>) /\ afp' = Hold(thr[t].afp)
        /\ UNCHANGED <<aflock, proc, thr, alive, mark, used, ops>>
    BY DEF AuditInv, SyncHold
  <1>2. PICK c \in Afps \cup {Null} : c = thr[t].afp
    BY <1>1 DEF Shape, ThrType
  <1>3. Takes(c)
    BY <1>1, <1>2, HoldTakes
  <1>4. Moved(t) /\ Others(t) /\ At(t, "swap")' /\ ~At(t, "destroy")' /\ ~At(t, "rele")'
    BY <1>1, Done DEF Moved
  <1>5. Shape'
    BY <1>1, <1>3, <1>4 DEF Shape, Moved, Takes
  <1>6. ~At(t, "swap") /\ ~At(t, "rele") /\ ~At(t, "destroy")
    BY <1>1 DEF At
  <1>7. \A b \in Afps : Own(t, b)' + Of(t, b)' = Own(t, b) + Of(t, b) + One(b = c)
    BY <1>1, <1>2, <1>4, <1>6 DEF Own, Of, One
  <1>8. \A b \in Afps : AfpInv(b)' /\ Calm(b)
    BY <1>1, <1>2, <1>3, <1>4, <1>6, <1>7, Held
  <1>9. /\ TaskInv(t)' /\ (t \in Keepers => KeeperInv(t)')
        /\ \A f : Getting(t, f)' => Getting(t, f)
        /\ ~At(t, "take")'
    <2>1. \A a \in Afps : RefCount(a) = 0 \/ Grows(a)
      BY <1>8 DEF Calm
    <2> QED BY <1>1, <1>5, <2>1, DoneTask
  <1>10. Alone(t)
    BY <1>1, <1>4 DEF Alone
  <1> QED BY <1>1, <1>5, <1>8, <1>9, <1>10, Preserved

LEMMA SnapshotStep ==
    ASSUME AuditInv, NEW t \in Tasks, Snapshot(t) PROVE AuditInv'
  <1>1. /\ Shape /\ TaskInv(t) /\ At(t, "snapshot") /\ Continue(t, <<>>) /\ afp' = Hold(proc[t].afp)
        /\ UNCHANGED <<aflock, proc, alive, mark, used, ops>>
        /\ thr' = [thr EXCEPT ![t] = [@ EXCEPT !.afp = proc[t].afp, !.on = proc[t].on]]
        /\ todo[t] # <<>> /\ Head(todo[t]).do = "snapshot"
    BY DEF AuditInv, Snapshot, At
  <1>2. PICK c \in Afps \cup {Null} : c = proc[t].afp
    BY <1>1 DEF Shape, ProcType
  <1>3. Takes(c)
    BY <1>1, <1>2, HoldTakes
  <1>4. /\ Moved(t) /\ Others(t) /\ ~At(t, "swap")' /\ ~At(t, "destroy")' /\ ~At(t, "rele")'
        /\ ~At(t, "take")' /\ ~At(t, "append")' /\ ~At(t, "reap")'
        /\ \A q : Has(t, q)' => Has(t, q) /\ Before("snapshot", q)
        /\ \A f : Getting(t, f)' => Getting(t, f)
    BY <1>1, Done DEF Moved
  <1>5. /\ thr' \in [Tasks -> ThrType] /\ thr'[t].afp = c /\ thr'[t].active = thr[t].active
        /\ \A u \in Tasks : u # t => thr'[u] = thr[u]
    BY <1>1, <1>2 DEF Shape, ThrType, ProcType
  <1>6. Shape'
    BY <1>1, <1>3, <1>4, <1>5 DEF Shape, Moved, Takes
  <1>7. ~At(t, "swap") /\ ~At(t, "rele") /\ ~At(t, "destroy")
    BY <1>1 DEF At
  <1>8. thr[t].afp = Null /\ thr[t].active
    BY <1>1, HeadStep DEF TaskInv, StepNames
  <1>9. \A b \in Afps : Own(t, b)' + Of(t, b)' = Own(t, b) + Of(t, b) + One(b = c)
    BY <1>1, <1>4, <1>5, <1>7, <1>8, AuditAssumption DEF Own, Of, One, AuditAssumption
  <1>10. \A b \in Afps : AfpInv(b)' /\ Calm(b)
    BY <1>1, <1>2, <1>3, <1>4, <1>5, <1>7, <1>9, Held
  <1>11. /\ ~Has(t, "new")' /\ ~Has(t, "snapshot")' /\ ~Has(t, "get")' /\ ~Has(t, "write")'
         /\ ~Has(t, "reap")' /\ ~Has(t, "obsolete")' /\ ~Has(t, "markerwrite")'
         /\ ~Has(t, "hold")' /\ ~Has(t, "swap")' /\ ~Has(t, "audit")'
    <2>1. \A q : Before("snapshot", q) => q \in {"purge", "leave"}
      BY DEF Before, Purging
    <2> QED BY <1>4, <2>1
  <1>12. TaskInv(t)'
    <2>1. Ordered(todo'[t]) /\ Paired(todo'[t])
      BY <1>4 DEF Moved
    <2>20. ~At(t, "new")
      BY <1>1 DEF At
    <2> QED BY <1>1, <1>4, <1>5, <1>8, <1>11, <2>1, <2>20 DEF TaskInv
  <1>13. t \in Keepers => KeeperInv(t)'
    BY <1>1, <1>4, <1>11 DEF KeeperInv, AuditInv
  <1>14. Alone(t)
    BY <1>1, <1>4, <1>5 DEF Alone
  <1> QED BY <1>1, <1>4, <1>6, <1>10, <1>12, <1>13, <1>14, Preserved

LEMMA InheritedFrom ==
    ASSUME Shape, NEW t \in Tasks
    PROVE  /\ Inherited(t) \in ProcType
           /\ Inherited(t).afp # Null => \E p \in Tasks : proc[p].afp = Inherited(t).afp
  <1>1. CASE Knows(t) = {}
    BY <1>1 DEF Inherited, NoProc, ProcType
  <1>2. CASE Knows(t) # {}
    <2>1. (CHOOSE p \in Knows(t) : TRUE) \in Knows(t)
      BY <1>2
    <2>2. Knows(t) \subseteq Tasks
      BY DEF Knows, Shape
    <2>3. PICK p \in Tasks : p = (CHOOSE q \in Knows(t) : TRUE)
      BY <2>1, <2>2
    <2>4. Inherited(t) = proc[p]
      BY <1>2, <2>3 DEF Inherited
    <2> QED BY <2>4 DEF Shape
  <1> QED BY <1>1, <1>2

LEMMA NewProcStep ==
    ASSUME AuditInv, NEW t \in Tasks, NewProc(t) PROVE AuditInv'
  <1>0. PICK i : i = Inherited(t)
    OBVIOUS
  <1>1. /\ Shape /\ TaskInv(t) /\ At(t, "new") /\ Continue(t, <<>>) /\ afp' = Hold(i.afp)
        /\ UNCHANGED <<aflock, thr, alive, mark, used, ops>>
        /\ proc' = [proc EXCEPT ![t] = [i EXCEPT !.known = TRUE]]
        /\ todo[t] # <<>> /\ Head(todo[t]).do = "new"
    BY <1>0 DEF AuditInv, NewProc, At
  <1>2. i \in ProcType /\ (i.afp # Null => \E p \in Tasks : proc[p].afp = i.afp)
    BY <1>0, <1>1, InheritedFrom
  <1> HIDE <1>0
  <1>3. PICK c \in Afps \cup {Null} : c = i.afp
    BY <1>2 DEF ProcType
  <1>4. Takes(c)
    BY <1>1, <1>3, HoldTakes
  <1>5. /\ Moved(t) /\ Others(t) /\ ~At(t, "swap")' /\ ~At(t, "destroy")' /\ ~At(t, "rele")'
        /\ ~At(t, "take")' /\ ~At(t, "append")' /\ ~At(t, "reap")'
        /\ \A q : Has(t, q)' => Has(t, q) /\ Before("new", q)
        /\ \A f : Getting(t, f)' => Getting(t, f)
    BY <1>1, Done DEF Moved
  <1>6. /\ proc' \in [Tasks -> ProcType] /\ proc'[t].afp = c /\ proc'[t].known
        /\ \A u \in Tasks : u # t => proc'[u] = proc[u]
    <2>1. PICK r : r = [i EXCEPT !.known = TRUE]
      OBVIOUS
    <2>2. r \in ProcType /\ r.afp = c /\ r.known
      BY <1>2, <1>3, <2>1 DEF ProcType
    <2> QED BY <1>1, <2>1, <2>2 DEF Shape
  <1>7. Shape'
    BY <1>1, <1>4, <1>5, <1>6 DEF Shape, Moved, Takes
  <1>8. ~At(t, "swap") /\ ~At(t, "rele") /\ ~At(t, "destroy")
    BY <1>1 DEF At
  <1>9. thr[t].afp = Null /\ thr[t].active /\ proc[t].afp = Null
    BY <1>1, HeadStep DEF TaskInv, StepNames
  <1>10. \A b \in Afps : Own(t, b)' + Of(t, b)' = Own(t, b) + Of(t, b) + One(b = c)
    BY <1>1, <1>5, <1>6, <1>8, <1>9, AuditAssumption DEF Own, Of, One, AuditAssumption
  <1>11. \A b \in Afps : AfpInv(b)' /\ Calm(b)
    BY <1>1, <1>2, <1>3, <1>4, <1>5, <1>6, <1>8, <1>10, Held
  <1>12. /\ ~Has(t, "new")' /\ ~Has(t, "get")' /\ ~Has(t, "write")'
         /\ ~Has(t, "reap")' /\ ~Has(t, "obsolete")' /\ ~Has(t, "markerwrite")'
         /\ ~Has(t, "hold")' /\ ~Has(t, "swap")' /\ ~Has(t, "audit")'
    <2>1. \A q : Before("new", q) => q \in {"snapshot", "purge", "leave"}
      BY DEF Before, Purging
    <2> QED BY <1>5, <2>1
  <1>13. TaskInv(t)'
    <2>1. Ordered(todo'[t]) /\ Paired(todo'[t])
      BY <1>5 DEF Moved
    <2> QED BY <1>1, <1>5, <1>6, <1>9, <1>12, <2>1 DEF TaskInv
  <1>14. t \in Keepers => KeeperInv(t)'
    BY <1>1, <1>5, <1>12 DEF KeeperInv, AuditInv
  <1>15. Alone(t)
    BY <1>1, <1>5, <1>6 DEF Alone
  <1> QED BY <1>1, <1>5, <1>7, <1>9, <1>11, <1>13, <1>14, <1>15, Preserved

LEMMA AfpTakeStep ==
    ASSUME AuditInv, NEW t \in Tasks, AfpTake(t) PROVE AuditInv'
  <1>1. /\ Shape /\ TaskInv(t) /\ FindInv(t) /\ At(t, "take") /\ Continue(t, <<>>)
        /\ UNCHANGED <<proc, alive, mark, used, ops>> /\ aflock' = Null
        /\ thr' = [thr EXCEPT ![t].afp = Arg(t)]
        /\ todo[t] # <<>> /\ Head(todo[t]).do = "take"
    BY DEF AuditInv, AfpTake, At
  <1>2. PICK c \in Afps : c = Arg(t)
    BY <1>1, HeadStep DEF OnAfp
  <1>3. PICK k \in Keepers : proc[k].afp = c
    BY <1>1, <1>2 DEF FindInv
  <1>4. k \in Tasks /\ c # Null
    BY AuditAssumption DEF AuditAssumption
  <1>5. Takes(c)
    <2>0. afp \in [Afps -> AfpType] /\ afp[c] \in AfpType
      BY <1>1 DEF Shape
    <2>1. PICK m \in Nat : m = afp[c].refcnt + 1
      BY <2>0 DEF AfpType
    <2>2. PICK r : r = [afp[c] EXCEPT !.refcnt = m, !.obsolete = FALSE]
      OBVIOUS
    <2>3. /\ r \in AfpType /\ r.live = afp[c].live /\ r.destroy = afp[c].destroy
          /\ r.refcnt = m /\ r.file = afp[c].file /\ r.made = afp[c].made
          /\ r.out = afp[c].out /\ r.werr = afp[c].werr /\ r.buf = afp[c].buf
      <3> HIDE <2>1
      <3> QED BY <2>0, <2>2 DEF AfpType
    <2>4. afp' = [afp EXCEPT ![c] = r]
      BY <1>2, <2>1, <2>2, Zenon DEF AfpTake
    <2> QED BY <2>0, <2>1, <2>3, <2>4 DEF Takes
  <1>6. /\ Moved(t) /\ Others(t) /\ ~At(t, "swap")' /\ ~At(t, "destroy")' /\ ~At(t, "rele")'
        /\ ~At(t, "take")' /\ ~At(t, "append")' /\ ~At(t, "reap")'
        /\ \A q : Has(t, q)' => Has(t, q) /\ Before("take", q)
        /\ \A f : Getting(t, f)' => Getting(t, f)
    BY <1>1, Done DEF Moved
  <1>7. /\ thr' \in [Tasks -> ThrType] /\ thr'[t].afp = c /\ thr'[t].active = thr[t].active
        /\ \A u \in Tasks : u # t => thr'[u] = thr[u]
    BY <1>1, <1>2 DEF Shape, ThrType
  <1>8. Shape'
    BY <1>1, <1>5, <1>6, <1>7 DEF Shape, Moved, Takes
  <1>9. ~At(t, "swap") /\ ~At(t, "rele") /\ ~At(t, "destroy")
    BY <1>1 DEF At
  <1>10. thr[t].afp = Null /\ thr[t].active
    BY <1>1, HeadStep DEF TaskInv, StepNames
  <1>11. \A b \in Afps : Own(t, b)' + Of(t, b)' = Own(t, b) + Of(t, b) + One(b = c)
    BY <1>1, <1>4, <1>6, <1>7, <1>9, <1>10, AuditAssumption DEF Own, Of, One, AuditAssumption
  <1>12. \A b \in Afps : AfpInv(b)' /\ Calm(b)
    BY <1>1, <1>3, <1>4, <1>5, <1>6, <1>7, <1>9, <1>11, Held
  <1>13. /\ ~Has(t, "new")' /\ ~Has(t, "snapshot")' /\ ~Has(t, "get")' /\ ~Has(t, "audit")'
         /\ ~Has(t, "reap")' /\ ~Has(t, "markerwrite")'
    <2>1. \A q : Before("take", q) => q \in {"hold", "swap"}
      BY DEF Before, Purging
    <2> QED BY <1>6, <2>1
  <1>14. TaskInv(t)'
    <2>1. Ordered(todo'[t]) /\ Paired(todo'[t])
      BY <1>6 DEF Moved
    <2>20. ~At(t, "new")
      BY <1>1 DEF At
    <2> QED BY <1>1, <1>4, <1>6, <1>7, <1>10, <1>13, <2>1, <2>20 DEF TaskInv
  <1>15. t \in Keepers => KeeperInv(t)'
    BY <1>1, <1>6, <1>13 DEF KeeperInv, AuditInv
  <1>16. Alone(t)
    BY <1>1, <1>6, <1>7 DEF Alone
  <1> QED BY <1>1, <1>6, <1>8, <1>12, <1>14, <1>15, <1>16, Preserved

-----------------------------------------------------------------------------
(* Giving up a reference.                                                     *)
LEMMA Dropped ==
    ASSUME AuditInv, NEW t \in Tasks, NEW c \in Afps, Others(t), proc' = proc, used' = used,
           \A u \in Tasks : u # t => thr'[u] = thr[u],
           thr[t].afp = c \/ (At(t, "rele") /\ Arg(t) = c),
           \A b \in Afps : Own(t, b)' = Own(t, b) - One(b = c), ~At(t, "destroy"),
           \/ /\ ~LastRef(c) /\ afp' = [afp EXCEPT ![c].refcnt = @ - 1]
              /\ ~At(t, "destroy")'
           \/ /\ LastRef(c)
              /\ \E r \in Written(c) : afp' = [afp EXCEPT ![c] = [r EXCEPT !.destroy = TRUE]]
              /\ At(t, "destroy")' /\ Arg(t)' = c
    PROVE  afp' \in [Afps -> AfpType] /\ \A b \in Afps : AfpInv(b)' /\ Calm(b)
  <1>1. /\ afp \in [Afps -> AfpType] /\ afp[c] \in AfpType /\ AfpInv(c)
        /\ afp[c].refcnt \in Nat /\ afp[c].made \in Nat /\ afp[c].out \in Nat
    BY DEF AuditInv, Shape, AfpType
  <1>2. /\ afp[c].live /\ ~afp[c].destroy /\ afp[c].refcnt = RefCount(c) /\ afp[c].refcnt # 0
        /\ RefCount(c) # 0
    BY Points
  <1>3. ASSUME NEW b \in Afps
        PROVE  /\ RefCount(b)' = RefCount(b) - One(b = c) /\ RefCount(b) \in Nat
               /\ One(b = c) = IF b = c THEN 1 ELSE 0
    <2>1. /\ RefCount(b)' = RefCount(b) - Own(t, b) + Own(t, b)' - Of(t, b) + Of(t, b)'
          /\ RefCount(b) \in Nat
      BY RefStep
    <2>2. Own(t, b) \in Nat /\ Of(t, b) \in Nat /\ Of(t, b)' = Of(t, b)
          /\ One(b = c) = IF b = c THEN 1 ELSE 0
      BY DEF Own, Of, One
    <2>3. Own(t, b)' = Own(t, b) - One(b = c)
      OBVIOUS
    <2> QED BY <2>1, <2>2, <2>3
  <1>4. ASSUME NEW b \in Afps, b # c, afp'[b] = afp[b] PROVE AfpInv(b)' /\ Calm(b)
    <2>1. RefCount(b)' = RefCount(b)
      BY <1>3, <1>4
    <2>2. Destroying(t, b)' <=> Destroying(t, b)
      BY <1>4 DEF Destroying
    <2>3. \A u \in Tasks : Destroying(u, b)' <=> Destroying(u, b)
      BY <2>2, SameDestroyers
    <2> QED BY <1>4, <2>1, <2>3, StillSound DEF Kept1
  <1>5. CASE ~LastRef(c) /\ afp' = [afp EXCEPT ![c].refcnt = @ - 1] /\ ~At(t, "destroy")'
    <2>1. PICK m \in Nat : m = afp[c].refcnt - 1 /\ m # 0
      BY <1>1, <1>2, <1>5 DEF LastRef
    <2>2. PICK r : r = [afp[c] EXCEPT !.refcnt = m]
      OBVIOUS
    <2>3. afp' = [afp EXCEPT ![c] = r]
      BY <1>5, <2>1, <2>2, Zenon
    <2>4. /\ r \in AfpType /\ r.live = afp[c].live /\ r.destroy = afp[c].destroy
          /\ r.refcnt = m /\ r.file = afp[c].file /\ r.made = afp[c].made
          /\ r.out = afp[c].out /\ r.werr = afp[c].werr /\ r.buf = afp[c].buf
      <3> HIDE <2>1, <1>5
      <3> QED BY <1>1, <2>2 DEF AfpType
    <2>5. afp'[c] = r /\ afp' \in [Afps -> AfpType] /\ \A b \in Afps : b # c => afp'[b] = afp[b]
      BY <1>1, <2>3, <2>4
    <2>6. m = RefCount(c)'
      BY <1>2, <1>3, <2>1
    <2>7. Grows(c) /\ (~r.werr => r.made = r.out + Len(r.buf))
      BY <1>1, <1>2, <2>4, <2>5 DEF Grows, AfpInv
    <2>8. Kept2(c)
      BY <1>2, <2>1, <2>4, <2>5, <2>6, <2>7 DEF Kept2
    <2>9. \A u \in Tasks : Destroying(u, c)' <=> Destroying(u, c)
      BY <1>5, SameDestroyers DEF Destroying
    <2>10. AfpInv(c)' /\ Calm(c)
      BY <2>8, <2>9, StillSound
    <2> QED BY <1>4, <2>5, <2>10
  <1>6. CASE /\ LastRef(c)
             /\ \E r \in Written(c) : afp' = [afp EXCEPT ![c] = [r EXCEPT !.destroy = TRUE]]
             /\ At(t, "destroy")' /\ Arg(t)' = c
    <2>1. PICK r \in Written(c) : afp' = [afp EXCEPT ![c] = [r EXCEPT !.destroy = TRUE]]
      BY <1>6
    <2>2. /\ r \in AfpType /\ r.live = afp[c].live
          /\ r.refcnt = afp[c].refcnt /\ r.file = afp[c].file
          /\ r.buf = <<>> /\ r.made = afp[c].made /\ afp[c].out <= r.out
          /\ (afp[c].werr => r.werr) /\ (~r.werr => r.made = r.out)
      BY <1>1, <1>2, WriteLeaves DEF AfpInv
    <2>3. PICK s : s = [r EXCEPT !.destroy = TRUE]
      OBVIOUS
    <2>4. /\ s \in AfpType /\ s.live = r.live /\ s.destroy /\ s.file = r.file /\ s.made = r.made
          /\ s.out = r.out /\ s.werr = r.werr /\ s.buf = r.buf
      BY <2>2, <2>3 DEF AfpType
    <2>5. afp'[c] = s /\ afp' \in [Afps -> AfpType] /\ \A b \in Afps : b # c => afp'[b] = afp[b]
      BY <1>1, <2>1, <2>3, <2>4
    <2>6. RefCount(c)' = 0
      <3>1. RefCount(c) = 1
        BY <1>2, <1>6 DEF LastRef
      <3>2. RefCount(c)' = RefCount(c) - 1
        BY <1>3
      <3> QED BY <3>1, <3>2
    <2>7. \A u \in Tasks : Destroying(u, c)' <=> u = t
      <3> SUFFICES ASSUME NEW u \in Tasks PROVE Destroying(u, c)' <=> u = t
        OBVIOUS
      <3>1. CASE u = t
        BY <1>6, <3>1 DEF Destroying
      <3>2. CASE u # t
        <4>1. todo'[u] = todo[u]
          BY <3>2 DEF Others
        <4>2. ~Destroying(u, c)
          BY <1>1, <1>2 DEF AfpInv
        <4> QED BY <3>2, <4>1, <4>2 DEF Destroying, At, Arg
      <3> QED BY <3>1, <3>2
    <2>8. /\ afp'[c].made = afp[c].made /\ afp'[c].buf = <<>> /\ (~afp'[c].werr => afp'[c].made = afp'[c].out)
          /\ afp'[c].live /\ afp'[c].destroy /\ afp'[c].file = afp[c].file
          /\ afp[c].out <= afp'[c].out /\ (afp[c].werr => afp'[c].werr) /\ afp[c].made <= afp'[c].made
      <3>1. afp'[c].made = afp[c].made /\ afp'[c].buf = <<>> /\ (~afp'[c].werr => afp'[c].made = afp'[c].out)
        BY <2>2, <2>4, <2>5, Zenon
      <3>2. /\ afp'[c].live /\ afp'[c].destroy /\ afp'[c].file = afp[c].file
            /\ (afp[c].werr => afp'[c].werr)
        BY <1>2, <2>2, <2>4, <2>5, Zenon
      <3>3. afp[c].out <= afp'[c].out
        BY <2>2, <2>4, <2>5, Zenon
      <3>4. afp[c].made <= afp'[c].made
        BY <1>1, <3>1
      <3> QED BY <3>1, <3>2, <3>3, <3>4
    <2>11. ~afp'[c].werr => afp'[c].made = afp'[c].out + Len(afp'[c].buf)
      <3>1. afp'[c].out \in Nat /\ Len(<<>>) = 0
        BY <2>4, <2>5 DEF AfpType
      <3> QED BY <2>8, <3>1
    <2>9. Calm(c)
      BY <1>2, <2>8 DEF Calm, Grows
    <2>10. AfpInv(c)'
      <3>1. afp[c].file \in used
        BY <1>1, <1>2 DEF AfpInv
      <3> QED BY <2>6, <2>7, <2>8, <2>11, <3>1 DEF AfpInv
    <2> QED BY <1>4, <2>5, <2>9, <2>10
  <1> QED BY <1>5, <1>6

(* The task after a release.                                                  *)
Releases == {"rele", "relethr", "leave"}

LEMMA ReleMoves ==
    ASSUME AuditInv, NEW t \in Tasks, NEW p \in Releases, At(t, p),
           \/ Continue(t, <<>>)
           \/ \E c \in Afps : Continue(t, <<Do("destroy", c)>>)
    PROVE  /\ Moved(t) /\ Others(t)
           /\ \A q : Has(t, q)' => q = "destroy" \/ (Has(t, q) /\ Before(p, q))
           /\ \A q : Has(t, q) /\ q # p => Has(t, q)'
           /\ \A f : Getting(t, f)' => Getting(t, f)
           /\ \A q \in {"take", "rele", "append", "reap", "swap"} : ~At(t, q)'
           /\ Continue(t, <<>>) => ~At(t, "destroy")'
           /\ \A c \in Afps : Continue(t, <<Do("destroy", c)>>) => At(t, "destroy")' /\ Arg(t)' = c
  <1>1. Shape /\ TaskInv(t)
    BY DEF AuditInv
  <1>2. ASSUME Continue(t, <<>>)
        PROVE  /\ Moved(t)
               /\ \A q : Has(t, q)' => Has(t, q) /\ Before(p, q)
               /\ \A q : Has(t, q) /\ q # p => Has(t, q)'
               /\ \A f : Getting(t, f)' => Getting(t, f)
               /\ \A q \in {"take", "rele", "append", "reap", "swap"} : ~At(t, q)'
               /\ ~At(t, "destroy")'
    <2>1. p # "hold" /\ p # "write"
      BY DEF Releases
    <2> QED BY <1>1, <1>2, <2>1, Done
  <1>3. ASSUME NEW c \in Afps, Continue(t, <<Do("destroy", c)>>)
        PROVE  /\ Moved(t)
               /\ \A q : Has(t, q)' => q = "destroy" \/ (Has(t, q) /\ Before(p, q))
               /\ \A q : Has(t, q) /\ q # p => Has(t, q)'
               /\ \A f : Getting(t, f)' => Getting(t, f)
               /\ \A q : At(t, q)' <=> q = "destroy"
               /\ Arg(t)' = c
    <2>1. PICK x : x = Do("destroy", c)
      OBVIOUS
    <2>2. x \in Steps /\ x.do = "destroy" /\ x.x = c
      BY <2>1 DEF Do, Steps, OnAfp
    <2>3. \A q \in StepNames : Before(p, q) => Before("destroy", q)
      BY DEF Before, Purging, Releases
    <2>4. p # "hold" /\ p # "write"
      BY DEF Releases
    <2> QED BY <1>1, <1>3, <2>1, <2>2, <2>3, <2>4, Then
  <1>4. CASE Continue(t, <<>>)
    <2>1. ASSUME NEW c \in Afps, Continue(t, <<Do("destroy", c)>>) PROVE FALSE
      BY <1>2, <1>3, <1>4, <2>1
    <2> QED BY <1>2, <1>4, <2>1 DEF Moved
  <1>5. CASE \E c \in Afps : Continue(t, <<Do("destroy", c)>>)
    <2>1. ~Continue(t, <<>>)
      BY <1>2, <1>3, <1>5
    <2>2. \A q \in {"take", "rele", "append", "reap", "swap"} : ~At(t, q)'
      BY <1>3, <1>5
    <2> QED BY <1>3, <1>5, <2>1, <2>2 DEF Moved
  <1> QED BY <1>4, <1>5

(* What becomes of the audit files.                                           *)
LEMMA ReleAfps ==
    ASSUME AuditInv, NEW t \in Tasks, NEW p \in Releases, At(t, p),
           NEW c \in Afps \cup {Null}, Rele(t, c),
           c = IF p = "rele" THEN Arg(t) ELSE thr[t].afp,
           thr'[t].afp = IF p = "rele" THEN thr[t].afp ELSE Null,
           \A u \in Tasks : u # t => thr'[u] = thr[u], proc' = proc, used' = used
    PROVE  /\ Continue(t, <<>>) \/ \E d \in Afps : Continue(t, <<Do("destroy", d)>>)
           /\ afp' \in [Afps -> AfpType] /\ \A b \in Afps : AfpInv(b)' /\ Calm(b)
  <1>1. Continue(t, <<>>) \/ \E d \in Afps : Continue(t, <<Do("destroy", d)>>)
    BY DEF Rele
  <1>2. /\ Moved(t) /\ Others(t)
        /\ ~At(t, "rele")' /\ ~At(t, "swap")'
        /\ Continue(t, <<>>) => ~At(t, "destroy")'
        /\ \A d \in Afps : Continue(t, <<Do("destroy", d)>>) => At(t, "destroy")' /\ Arg(t)' = d
    BY <1>1, ReleMoves
  <1>3. ~At(t, "destroy") /\ ~At(t, "swap") /\ (At(t, "rele") <=> p = "rele")
    BY DEF At, Releases
  <1>4. /\ Null \notin Afps /\ afp \in [Afps -> AfpType] /\ thr[t].afp \in Afps \cup {Null}
    BY AuditAssumption DEF AuditAssumption, AuditInv, Shape, ThrType
  <1>5. \A b \in Afps : Own(t, b)' = Own(t, b) - One(b = c) /\ Own(t, b) \in Nat
    <2> SUFFICES ASSUME NEW b \in Afps PROVE Own(t, b)' = Own(t, b) - One(b = c) /\ Own(t, b) \in Nat
      OBVIOUS
    <2>1. CASE p = "rele"
      BY <1>2, <1>3, <2>1 DEF Own, One
    <2>2. CASE p # "rele"
      BY <1>2, <1>3, <1>4, <2>2 DEF Own, One
    <2> QED BY <2>1, <2>2
  <1>6. CASE c = Null
    <2>1. afp' = afp /\ Continue(t, <<>>)
      BY <1>6 DEF Rele
    <2>2. ASSUME NEW b \in Afps PROVE AfpInv(b)' /\ Calm(b)
      <3>1. One(b = c) = 0
        BY <1>4, <1>6 DEF One
      <3>2. /\ RefCount(b)' = RefCount(b) - Own(t, b) + Own(t, b)' - Of(t, b) + Of(t, b)'
            /\ RefCount(b) \in Nat
        BY <1>2, RefStep
      <3>3. Of(t, b)' = Of(t, b) /\ Of(t, b) \in Nat
        BY DEF Of, One
      <3>4. RefCount(b)' = RefCount(b)
        BY <1>5, <3>1, <3>2, <3>3
      <3>5. \A u \in Tasks : Destroying(u, b)' <=> Destroying(u, b)
        BY <1>2, <1>3, <2>1, SameDestroyers DEF Destroying
      <3> QED BY <2>1, <3>4, <3>5, StillSound DEF Kept1
    <2> QED BY <1>1, <1>4, <2>1, <2>2
  <1>7. CASE c \in Afps
    <2>1. thr[t].afp = c \/ (At(t, "rele") /\ Arg(t) = c)
      BY <1>3
    <2>2. \/ /\ ~LastRef(c) /\ afp' = [afp EXCEPT ![c].refcnt = @ - 1]
             /\ ~At(t, "destroy")'
          \/ /\ LastRef(c)
             /\ \E r \in Written(c) : afp' = [afp EXCEPT ![c] = [r EXCEPT !.destroy = TRUE]]
             /\ At(t, "destroy")' /\ Arg(t)' = c
      <3>1. c # Null
        BY <1>4, <1>7
      <3>2. CASE LastRef(c)
        <4>1. \E r \in Written(c) : afp' = [afp EXCEPT ![c] = [r EXCEPT !.destroy = TRUE]]
          BY <3>1, <3>2, Zenon DEF Rele
        <4>2. Continue(t, <<Do("destroy", c)>>)
          BY <3>1, <3>2, Zenon DEF Rele
        <4> QED BY <1>2, <1>7, <3>2, <4>1, <4>2, Zenon
      <3>3. CASE ~LastRef(c)
        <4>1. afp' = [afp EXCEPT ![c].refcnt = @ - 1] /\ Continue(t, <<>>)
          BY <3>1, <3>3, Zenon DEF Rele
        <4> QED BY <1>2, <3>3, <4>1, Zenon
      <3> QED BY <3>2, <3>3
    <2>3. afp' \in [Afps -> AfpType] /\ \A b \in Afps : AfpInv(b)' /\ Calm(b)
      <3>1. Others(t) /\ ~At(t, "destroy") /\ \A b \in Afps : Own(t, b)' = Own(t, b) - One(b = c)
        BY <1>2, <1>3, <1>5
      <3> HIDE DEF LastRef, Written
      <3> QED BY <1>7, <2>1, <2>2, <3>1, Dropped
    <2> QED BY <1>1, <2>3
  <1> QED BY <1>6, <1>7

LEMMA ReleaseProcStep ==
    ASSUME AuditInv, NEW t \in Tasks, ReleaseProc(t) PROVE AuditInv'
  <1>1. /\ Shape /\ TaskInv(t) /\ At(t, "rele") /\ Rele(t, Arg(t)) /\ todo[t] # <<>>
        /\ Head(todo[t]).do = "rele" /\ UNCHANGED <<aflock, proc, thr, alive, mark, used, ops>>
    BY DEF AuditInv, ReleaseProc, At
  <1>2. PICK c \in Afps : c = Arg(t)
    BY <1>1, HeadStep DEF OnAfp
  <1>3. PICK p \in Releases : p = "rele"
    BY DEF Releases
  <1>4. /\ Continue(t, <<>>) \/ \E d \in Afps : Continue(t, <<Do("destroy", d)>>)
        /\ afp' \in [Afps -> AfpType] /\ \A b \in Afps : AfpInv(b)' /\ Calm(b)
    BY <1>1, <1>2, <1>3, ReleAfps
  <1>5. /\ Moved(t) /\ Others(t)
        /\ \A q : Has(t, q)' => q = "destroy" \/ (Has(t, q) /\ Before(p, q))
        /\ \A q : Has(t, q) /\ q # p => Has(t, q)'
        /\ \A f : Getting(t, f)' => Getting(t, f)
        /\ \A q \in {"take", "rele", "append", "reap", "swap"} : ~At(t, q)'
    BY <1>1, <1>3, <1>4, ReleMoves
  <1>6. Shape' /\ Alone(t)
    BY <1>1, <1>4, <1>5 DEF Shape, Moved, Alone
  <1>7. TaskInv(t)'
    <2>1. Ordered(todo'[t]) /\ Paired(todo'[t])
      BY <1>5 DEF Moved
    <2>2. thr[t].active /\ t \in alive
      BY <1>1, HeadStep DEF TaskInv, StepNames
    <2>3. \A q \in StepNames : Has(t, q)' => Has(t, q) \/ q = "destroy"
      BY <1>5
    <2>4. Has(t, "relethr") => Has(t, "relethr")'
      BY <1>3, <1>5
    <2>5. thr[t].afp # Null => (mark[t] <= afp[thr[t].afp].made => mark[t] <= afp'[thr[t].afp].made)
      <3> SUFFICES ASSUME NEW a \in Afps, thr[t].afp = a, mark[t] <= afp[a].made PROVE mark[t] <= afp'[a].made
        BY <1>1 DEF Shape, ThrType
      <3>1. Grows(a) /\ afp[a].made \in Nat /\ afp'[a].made \in Nat /\ mark[t] \in Nat
        BY <1>1, <1>4, Points DEF Calm, Shape, AfpType
      <3> QED BY <3>1 DEF Grows
    <2>6. /\ Has(t, "new")' => Has(t, "new")
          /\ Has(t, "snapshot")' => Has(t, "snapshot") /\ (Has(t, "get")' => Has(t, "get"))
          /\ Has(t, "write")' => Has(t, "write") /\ (Has(t, "reap")' => Has(t, "reap"))
          /\ Has(t, "obsolete")' => Has(t, "obsolete")
          /\ Has(t, "reap")' => Has(t, "reap")
          /\ Has(t, "get")' => Has(t, "get")
          /\ Has(t, "markerwrite")' => Has(t, "markerwrite")
      BY <2>3 DEF StepNames
    <2>7. ~At(t, "take")' /\ ~At(t, "append")' /\ ~At(t, "reap")'
      BY <1>5
    <2>20. ~At(t, "new")
      BY <1>1 DEF At
    <2> QED BY <1>1, <2>1, <2>2, <2>4, <2>5, <2>6, <2>7, <2>20 DEF TaskInv
  <1>8. t \in Keepers => KeeperInv(t)'
    <2>1. ~At(t, "append")' /\ (Has(t, "hold")' => Has(t, "hold")) /\ (Has(t, "swap")' => Has(t, "swap"))
          /\ (Has(t, "audit")' => Has(t, "audit"))
      BY <1>5
    <2> QED BY <1>1, <2>1 DEF KeeperInv, AuditInv
  <1>9. ~At(t, "take")'
    BY <1>5
  <1> QED BY <1>1, <1>4, <1>5, <1>6, <1>7, <1>8, <1>9, Preserved

LEMMA ReleaseThrStep ==
    ASSUME AuditInv, NEW t \in Tasks, ReleaseThr(t) PROVE AuditInv'
  <1>1. /\ Shape /\ TaskInv(t) /\ At(t, "relethr") /\ Rele(t, thr[t].afp) /\ todo[t] # <<>>
        /\ Head(todo[t]).do = "relethr" /\ UNCHANGED <<aflock, proc, alive, mark, used, ops>>
        /\ thr' = [thr EXCEPT ![t].afp = Null]
    BY DEF AuditInv, ReleaseThr, At
  <1>2. PICK c \in Afps \cup {Null} : c = thr[t].afp
    BY <1>1 DEF Shape, ThrType
  <1>3. PICK p \in Releases : p = "relethr"
    BY DEF Releases
  <1>4. /\ thr' \in [Tasks -> ThrType] /\ thr'[t].afp = Null /\ thr'[t].active = thr[t].active
        /\ \A u \in Tasks : u # t => thr'[u] = thr[u]
    BY <1>1 DEF Shape, ThrType
  <1>5. /\ Continue(t, <<>>) \/ \E d \in Afps : Continue(t, <<Do("destroy", d)>>)
        /\ afp' \in [Afps -> AfpType] /\ \A b \in Afps : AfpInv(b)' /\ Calm(b)
    BY <1>1, <1>2, <1>3, <1>4, ReleAfps
  <1>6. /\ Moved(t) /\ Others(t)
        /\ \A q : Has(t, q)' => q = "destroy" \/ (Has(t, q) /\ Before(p, q))
        /\ \A f : Getting(t, f)' => Getting(t, f)
        /\ \A q \in {"take", "rele", "append", "reap", "swap"} : ~At(t, q)'
    BY <1>1, <1>3, <1>5, ReleMoves
  <1>7. Shape' /\ Alone(t)
    BY <1>1, <1>4, <1>5, <1>6 DEF Shape, Moved, Alone
  <1>8. TaskInv(t)'
    <2>1. Ordered(todo'[t]) /\ Paired(todo'[t])
      BY <1>6 DEF Moved
    <2>2. thr[t].active /\ t \in alive
      BY <1>1, HeadStep DEF TaskInv, StepNames
    <2>3. /\ ~Before(p, "new") /\ ~Before(p, "snapshot") /\ ~Before(p, "write") /\ ~Before(p, "reap")
          /\ ~Before(p, "obsolete")
      BY <1>3 DEF Before, Purging
    <2>4. /\ ~Has(t, "new")' /\ ~Has(t, "snapshot")' /\ ~Has(t, "write")' /\ ~Has(t, "reap")'
          /\ ~Has(t, "obsolete")'
      BY <1>6, <2>3
    <2>5. ~At(t, "take")' /\ ~At(t, "append")' /\ ~At(t, "reap")'
      BY <1>6
    <2>20. ~At(t, "new")
      BY <1>1 DEF At
    <2> QED BY <1>1, <1>4, <2>1, <2>2, <2>4, <2>5, <2>20 DEF TaskInv
  <1>9. t \in Keepers => KeeperInv(t)'
    <2>1. ~At(t, "append")' /\ (Has(t, "hold")' => Has(t, "hold")) /\ (Has(t, "swap")' => Has(t, "swap"))
          /\ (Has(t, "audit")' => Has(t, "audit"))
      BY <1>6
    <2> QED BY <1>1, <2>1 DEF KeeperInv, AuditInv
  <1>10. ~At(t, "take")'
    BY <1>6
  <1> QED BY <1>1, <1>5, <1>6, <1>7, <1>8, <1>9, <1>10, Preserved

LEMMA LeaveStep ==
    ASSUME AuditInv, NEW t \in Tasks, Leave(t) PROVE AuditInv'
  <1>1. /\ Shape /\ TaskInv(t) /\ At(t, "leave") /\ Rele(t, thr[t].afp) /\ todo[t] # <<>>
        /\ Head(todo[t]).do = "leave" /\ UNCHANGED <<aflock, proc, alive, used, ops>>
        /\ thr' = [thr EXCEPT ![t] = NoThr] /\ mark' = [mark EXCEPT ![t] = 0]
    BY DEF AuditInv, Leave, At
  <1>2. PICK c \in Afps \cup {Null} : c = thr[t].afp
    BY <1>1 DEF Shape, ThrType
  <1>3. PICK p \in Releases : p = "leave"
    BY DEF Releases
  <1>4. /\ thr' \in [Tasks -> ThrType] /\ thr'[t].afp = Null /\ ~thr'[t].active
        /\ \A u \in Tasks : u # t => thr'[u] = thr[u] /\ mark'[u] = mark[u]
        /\ mark' \in [Tasks -> Nat]
    BY <1>1 DEF Shape, ThrType, NoThr
  <1>5. /\ Continue(t, <<>>) \/ \E d \in Afps : Continue(t, <<Do("destroy", d)>>)
        /\ afp' \in [Afps -> AfpType] /\ \A b \in Afps : AfpInv(b)' /\ Calm(b)
    BY <1>1, <1>2, <1>3, <1>4, ReleAfps
  <1>6. /\ Moved(t) /\ Others(t)
        /\ \A q : Has(t, q)' => q = "destroy" \/ (Has(t, q) /\ Before(p, q))
        /\ \A f : Getting(t, f)' => Getting(t, f)
        /\ \A q \in {"take", "rele", "append", "reap", "swap"} : ~At(t, q)'
    BY <1>1, <1>3, <1>5, ReleMoves
  <1>7. Shape' /\ Alone(t)
    BY <1>1, <1>4, <1>5, <1>6 DEF Shape, Moved, Alone
  <1>8. TaskInv(t)'
    <2>1. Ordered(todo'[t]) /\ Paired(todo'[t])
      BY <1>6 DEF Moved
    <2>2. t \in alive
      BY <1>1 DEF TaskInv
    <2>3. \A q : ~Before(p, q)
      BY <1>3 DEF Before, Purging
    <2>4. \A q : Has(t, q)' => q = "destroy"
      BY <1>6, <2>3
    <2>5. ~At(t, "take")' /\ ~At(t, "append")' /\ ~At(t, "reap")'
      BY <1>6
    <2>6. /\ ~Has(t, "new")' /\ ~Has(t, "snapshot")' /\ ~Has(t, "write")' /\ ~Has(t, "reap")'
          /\ ~Has(t, "obsolete")' /\ ~Has(t, "markerwrite")'
      BY <2>4
    <2>20. ~At(t, "new")
      BY <1>1 DEF At
    <2> QED BY <1>1, <1>4, <2>1, <2>2, <2>4, <2>5, <2>6, <2>20 DEF TaskInv
  <1>9. t \in Keepers => KeeperInv(t)'
    <2>1. ~At(t, "append")' /\ (Has(t, "hold")' => Has(t, "hold")) /\ (Has(t, "swap")' => Has(t, "swap"))
          /\ (Has(t, "audit")' => Has(t, "audit"))
      BY <1>6
    <2> QED BY <1>1, <2>1 DEF KeeperInv, AuditInv
  <1>10. ~At(t, "take")'
    BY <1>6
  <1> QED BY <1>1, <1>5, <1>6, <1>7, <1>8, <1>9, <1>10, Preserved

-----------------------------------------------------------------------------
(* A reference that changes hands.                                            *)
LEMMA Balanced ==
    ASSUME AuditInv, NEW t \in Tasks, NEW p \in Tasks, Others(t), afp' = afp, used \subseteq used',
           \A u \in Tasks : u # t => thr'[u] = thr[u],
           \A u \in Tasks : u # p => proc'[u] = proc[u],
           \A b \in Afps : Own(t, b)' + Of(p, b)' = Own(t, b) + Of(p, b),
           ~At(t, "destroy"), ~At(t, "destroy")'
    PROVE  \A b \in Afps : AfpInv(b)' /\ Calm(b)
  <1> SUFFICES ASSUME NEW b \in Afps PROVE AfpInv(b)' /\ Calm(b)
    OBVIOUS
  <1>1. /\ RefCount(b)' = RefCount(b) - Own(t, b) + Own(t, b)' - Of(p, b) + Of(p, b)'
        /\ RefCount(b) \in Nat
    BY RefStep
  <1>2. Own(t, b) \in Nat /\ Of(p, b) \in Nat /\ Own(t, b)' \in Nat /\ Of(p, b)' \in Nat
    BY DEF Own, Of, One
  <1>3. Own(t, b)' + Of(p, b)' = Own(t, b) + Of(p, b)
    OBVIOUS
  <1>4. RefCount(b)' = RefCount(b)
    BY <1>1, <1>2, <1>3
  <1>5. \A u \in Tasks : Destroying(u, b)' <=> Destroying(u, b)
    BY SameDestroyers DEF Destroying
  <1> QED BY <1>4, <1>5, StillSound DEF Kept1

(* The list after a step that may have a reference to release.                *)
LEMMA ReleThen ==
    ASSUME AuditInv, NEW t \in Tasks, NEW p, At(t, p), p \in {"swap", "purge"},
           NEW c \in Afps \cup {Null}, NEW S \in SUBSET Tasks,
           \/ p = "swap" /\ Continue(t, ReleAfp(c))
           \/ p = "purge" /\ Continue(t, ReleAfp(c) \o <<Do("purge", S)>>)
    PROVE  /\ Moved(t) /\ Others(t)
           /\ \A q : Has(t, q)' => q \in {"rele", "purge"} \/ (Has(t, q) /\ Before(p, q))
           /\ \A q : Has(t, q) /\ q # p => Has(t, q)'
           /\ \A f : Getting(t, f)' => Getting(t, f)
           /\ \A q \in {"take", "append", "reap", "swap", "destroy"} : ~At(t, q)'
           /\ \A b \in Afps : At(t, "rele")' /\ Arg(t)' = b <=> c = b
  <1>1. Shape /\ TaskInv(t) /\ Null \notin Afps
    BY AuditAssumption DEF AuditInv, AuditAssumption
  <1>2. PICK y : y = Do("purge", S)
    OBVIOUS
  <1>3. y \in Steps /\ y.do = "purge"
    BY <1>2 DEF Do, Steps
  <1>4. PICK x : x = Do("rele", c)
    OBVIOUS
  <1>5. (c # Null => x \in Steps) /\ x.do = "rele" /\ x.x = c
    BY <1>4 DEF Do, Steps, OnAfp
  <1>6. /\ \A q \in StepNames : Before(p, q) => Before("rele", q)
        /\ p = "purge" => \A q \in StepNames : Before(p, q) => Before("purge", q)
        /\ Before("rele", "purge")
    BY DEF Before, Purging
  <1>7. CASE c = Null /\ p = "swap"
    <2>1. Continue(t, <<>>)
      BY <1>7 DEF ReleAfp
    <2> QED BY <1>1, <1>7, <2>1, Done DEF Moved
  <1>8. CASE c # Null /\ p = "swap"
    <2>1. Continue(t, <<x>>)
      BY <1>4, <1>8 DEF ReleAfp
    <2>2. /\ Moved(t)
          /\ \A q : Has(t, q)' => q = x.do \/ (Has(t, q) /\ Before(p, q))
          /\ \A q : Has(t, q) /\ q # p => Has(t, q)'
          /\ \A f : Getting(t, f)' => Getting(t, f) /\ Before(p, "get")
          /\ \A q : At(t, q)' <=> q = x.do
          /\ Arg(t)' = x.x
      BY <1>1, <1>5, <1>6, <1>8, <2>1, Then
    <2>3. \A q \in {"take", "append", "reap", "swap", "destroy"} : ~At(t, q)'
      BY <1>5, <2>2
    <2> QED BY <1>5, <2>2, <2>3 DEF Moved
  <1>9. CASE c = Null /\ p = "purge"
    <2>1. Continue(t, <<y>>)
      <3>1. <<>> \o <<y>> = <<y>>
        BY <1>3
      <3>2. ReleAfp(c) \o <<Do("purge", S)>> = <<y>>
        BY <1>2, <1>9, <3>1, Zenon DEF ReleAfp
      <3> QED BY <1>9, <3>2, Zenon
    <2>2. /\ Moved(t)
          /\ \A q : Has(t, q)' => q = y.do \/ (Has(t, q) /\ Before(p, q))
          /\ \A q : Has(t, q) /\ q # p => Has(t, q)'
          /\ \A f : Getting(t, f)' => Getting(t, f) /\ Before(p, "get")
          /\ \A q : At(t, q)' <=> q = y.do
      BY <1>1, <1>3, <1>6, <1>9, <2>1, Then
    <2>3. \A q \in {"take", "append", "reap", "swap", "destroy", "rele"} : ~At(t, q)'
      BY <1>3, <2>2
    <2> QED BY <1>1, <1>3, <1>9, <2>2, <2>3 DEF Moved
  <1>10. CASE c # Null /\ p = "purge"
    <2>1. Continue(t, <<x, y>>)
      <3>1. <<x>> \o <<y>> = <<x, y>>
        <4>1. PICK s : s = <<x>> \o <<y>>
          OBVIOUS
        <4>2. <<x>> \in Seq(Steps) /\ <<y>> \in Seq(Steps) /\ Len(<<x>>) = 1 /\ Len(<<y>>) = 1
          BY <1>3, <1>5, <1>10
        <4>3. /\ s \in Seq(Steps) /\ Len(s) = 2
              /\ \A i \in 1 .. 2 : s[i] = IF i <= 1 THEN <<x>>[i] ELSE <<y>>[i - 1]
          BY <4>1, <4>2, ConcatProperties
        <4>4. s[1] = x /\ s[2] = y
          BY <4>3
        <4>5. s = <<x, y>>
          BY <1>3, <1>5, <1>10, <4>3, <4>4
        <4> QED BY <4>1, <4>5
      <3>2. ReleAfp(c) \o <<Do("purge", S)>> = <<x, y>>
        BY <1>2, <1>4, <1>10, <3>1, Zenon DEF ReleAfp
      <3> QED BY <1>10, <3>2, Zenon
    <2>2. /\ Moved(t)
          /\ \A q : Has(t, q)' => q = x.do \/ q = y.do \/ (Has(t, q) /\ Before(p, q))
          /\ \A q : Has(t, q) /\ q # p => Has(t, q)'
          /\ \A f : Getting(t, f)' => Getting(t, f) /\ Before(p, "get")
          /\ \A q : At(t, q)' <=> q = x.do
          /\ Arg(t)' = x.x
      BY <1>1, <1>3, <1>5, <1>6, <1>10, <2>1, ThenBoth
    <2>3. \A q \in {"take", "append", "reap", "swap", "destroy"} : ~At(t, q)'
      BY <1>5, <2>2
    <2> QED BY <1>3, <1>5, <2>2, <2>3 DEF Moved
  <1> QED BY <1>7, <1>8, <1>9, <1>10

LEMMA SyncSwapStep ==
    ASSUME AuditInv, NEW t \in Tasks, SyncSwap(t) PROVE AuditInv'
  <1>1. /\ Shape /\ TaskInv(t) /\ At(t, "swap") /\ Continue(t, ReleAfp(proc[t].afp))
        /\ UNCHANGED <<afp, aflock, thr, alive, mark, used, ops>> /\ todo[t] # <<>>
        /\ Head(todo[t]).do = "swap" /\ (t \in Keepers => KeeperInv(t))
        /\ proc' = [proc EXCEPT ![t] = [@ EXCEPT !.afp = thr[t].afp, !.on = thr[t].on]]
    BY DEF AuditInv, SyncSwap, At
  <1>2. PICK c \in Afps \cup {Null} : c = proc[t].afp
    BY <1>1 DEF Shape, ProcType
  <1>3. /\ Moved(t) /\ Others(t)
        /\ \A q : Has(t, q)' => q \in {"rele", "purge"} \/ (Has(t, q) /\ Before("swap", q))
        /\ \A f : Getting(t, f)' => Getting(t, f)
        /\ \A q \in {"take", "append", "reap", "swap", "destroy"} : ~At(t, q)'
        /\ \A b \in Afps : At(t, "rele")' /\ Arg(t)' = b <=> c = b
    <2>1. Continue(t, ReleAfp(c)) /\ {} \in SUBSET Tasks
      BY <1>1, <1>2
    <2> QED BY <1>1, <2>1, ReleThen
  <1>4. /\ proc' \in [Tasks -> ProcType] /\ proc'[t].afp = thr[t].afp /\ proc'[t].known = proc[t].known
        /\ \A u \in Tasks : u # t => proc'[u] = proc[u]
    BY <1>1 DEF Shape, ProcType, ThrType
  <1>5. Shape' /\ Alone(t)
    BY <1>1, <1>3, <1>4 DEF Shape, Moved, Alone
  <1>6. ~At(t, "rele") /\ ~At(t, "destroy") /\ ~At(t, "new") /\ ~At(t, "swap")' /\ ~At(t, "destroy")'
    BY <1>1, <1>3 DEF At
  <1>7. \A b \in Afps : Own(t, b)' + Of(t, b)' = Own(t, b) + Of(t, b)
    <2> SUFFICES ASSUME NEW b \in Afps PROVE Own(t, b)' + Of(t, b)' = Own(t, b) + Of(t, b)
      OBVIOUS
    <2>1. /\ Own(t, b) = One(thr[t].afp = b) + One(thr[t].afp = b) + 0
          /\ Of(t, b) = One(c = b)
      BY <1>1, <1>2, <1>6 DEF Own, Of, One
    <2>2. /\ Own(t, b)' = One(thr[t].afp = b) + 0 + One(c = b)
          /\ Of(t, b)' = One(thr[t].afp = b)
      BY <1>1, <1>3, <1>4, <1>6 DEF Own, Of, One
    <2>3. One(thr[t].afp = b) \in Nat /\ One(c = b) \in Nat
      BY DEF One
    <2> QED BY <2>1, <2>2, <2>3
  <1>8. \A b \in Afps : AfpInv(b)' /\ Calm(b)
    BY <1>1, <1>3, <1>4, <1>6, <1>7, Balanced
  <1>9. thr[t].active /\ proc[t].known /\ t \in alive
    BY <1>1, <1>6, HeadStep DEF TaskInv, StepNames
  <1>10. /\ ~Has(t, "new")' /\ ~Has(t, "snapshot")' /\ ~Has(t, "get")' /\ ~Has(t, "write")'
         /\ ~Has(t, "reap")' /\ ~Has(t, "obsolete")' /\ ~Has(t, "hold")' /\ ~Has(t, "swap")'
         /\ ~Has(t, "audit")' /\ (Has(t, "markerwrite")' => Has(t, "markerwrite"))
    <2>1. \A q : Before("swap", q) => q = "markerwrite"
      BY DEF Before, Purging
    <2> QED BY <1>3, <2>1
  <1>11. ~At(t, "take")' /\ ~At(t, "append")' /\ ~At(t, "reap")'
    BY <1>3
  <1>12. TaskInv(t)'
    <2>1. Ordered(todo'[t]) /\ Paired(todo'[t])
      BY <1>3 DEF Moved
    <2> QED BY <1>1, <1>4, <1>9, <1>10, <1>11, <2>1 DEF TaskInv
  <1>13. t \in Keepers => KeeperInv(t)' /\ proc[t].afp = Null
    BY <1>1, <1>10, <1>11, HeadStep DEF KeeperInv
  <1> QED BY <1>1, <1>3, <1>5, <1>8, <1>11, <1>12, <1>13, Preserved

LEMMA PurgeStep ==
    ASSUME AuditInv, NEW t \in Tasks, Purge(t) PROVE AuditInv'
  <1>1. /\ Shape /\ TaskInv(t) /\ At(t, "purge") /\ (t \in Keepers => KeeperInv(t))
        /\ UNCHANGED <<afp, aflock, thr, alive, mark, used, ops>> /\ todo[t] # <<>>
        /\ Head(todo[t]).do = "purge"
    BY DEF AuditInv, Purge, At
  <1>2. CASE Continue(t, <<>>) /\ UNCHANGED proc
    BY <1>1, <1>2, PlainDone DEF Shape
  <1>3. ASSUME NEW p \in Purgeable, proc' = [proc EXCEPT ![p] = NoProc],
               Continue(t, ReleAfp(proc[p].afp) \o <<Do("purge", Arg(t))>>)
        PROVE  AuditInv'
    <2>1. p \in Tasks /\ p \notin alive
      BY DEF Purgeable
    <2>2. t \in alive /\ t # p /\ thr[t].active
      BY <1>1, <2>1, HeadStep DEF TaskInv, StepNames
    <2>3. PICK c \in Afps \cup {Null} : c = proc[p].afp
      BY <1>1, <2>1 DEF Shape, ProcType
    <2>4. PICK S \in SUBSET Tasks : S = Arg(t)
      BY <1>1, HeadStep
    <2>5. /\ Moved(t) /\ Others(t)
          /\ \A q : Has(t, q)' => q \in {"rele", "purge"} \/ (Has(t, q) /\ Before("purge", q))
          /\ \A q : Has(t, q) /\ q # "purge" => Has(t, q)'
          /\ \A f : Getting(t, f)' => Getting(t, f)
          /\ \A q \in {"take", "append", "reap", "swap", "destroy"} : ~At(t, q)'
          /\ \A b \in Afps : At(t, "rele")' /\ Arg(t)' = b <=> c = b
      <3>1. Continue(t, ReleAfp(c) \o <<Do("purge", S)>>)
        BY <1>3, <2>3, <2>4
      <3> QED BY <1>1, <3>1, ReleThen
    <2>6. /\ proc' \in [Tasks -> ProcType] /\ proc'[p].afp = Null /\ proc'[p] = NoProc /\ NoProc \in ProcType
          /\ \A u \in Tasks : u # p => proc'[u] = proc[u]
      BY <1>1, <1>3, <2>1 DEF Shape, ProcType, NoProc
    <2>7. Shape' /\ Alone(t)
      BY <1>1, <2>1, <2>5, <2>6 DEF Shape, Moved, Alone
    <2>8. ~At(t, "rele") /\ ~At(t, "destroy") /\ ~At(t, "new") /\ ~At(t, "swap") /\ ~At(t, "swap")' /\ ~At(t, "destroy")'
      BY <1>1, <2>5 DEF At
    <2>9. \A b \in Afps : Own(t, b)' + Of(p, b)' = Own(t, b) + Of(p, b)
      <3> SUFFICES ASSUME NEW b \in Afps PROVE Own(t, b)' + Of(p, b)' = Own(t, b) + Of(p, b)
        OBVIOUS
      <3>1. Own(t, b) = One(thr[t].afp = b) + 0 + 0 /\ Of(p, b) = One(c = b)
        BY <2>3, <2>8 DEF Own, Of, One
      <3>2. Own(t, b)' = One(thr[t].afp = b) + 0 + One(c = b) /\ Of(p, b)' = 0
        <4>1. b # Null
          BY AuditAssumption DEF AuditAssumption
        <4> QED BY <1>1, <2>5, <2>6, <2>8, <4>1 DEF Own, Of, One
      <3>3. One(thr[t].afp = b) \in Nat /\ One(c = b) \in Nat
        BY DEF One
      <3> QED BY <3>1, <3>2, <3>3
    <2>10. \A b \in Afps : AfpInv(b)' /\ Calm(b)
      BY <1>1, <2>1, <2>5, <2>6, <2>8, <2>9, Balanced
    <2>11. ~At(t, "take")' /\ ~At(t, "append")' /\ ~At(t, "reap")'
      BY <2>5
    <2>12. \A q : Has(t, q)' => Has(t, q) \/ q \in {"rele", "purge"}
      BY <2>5
    <2>13. /\ Has(t, "new")' => Has(t, "new")
           /\ Has(t, "snapshot")' => Has(t, "snapshot")
           /\ Has(t, "get")' => Has(t, "get")
           /\ Has(t, "write")' => Has(t, "write")
           /\ Has(t, "reap")' => Has(t, "reap")
           /\ Has(t, "obsolete")' => Has(t, "obsolete")
           /\ Has(t, "markerwrite")' => Has(t, "markerwrite")
           /\ Has(t, "hold")' => Has(t, "hold")
           /\ Has(t, "swap")' => Has(t, "swap")
           /\ Has(t, "audit")' => Has(t, "audit")
      BY <2>12
    <2>14. Has(t, "relethr") => Has(t, "relethr")'
      BY <2>5
    <2>15. TaskInv(t)'
      <3>1. Ordered(todo'[t]) /\ Paired(todo'[t]) /\ proc'[t] = proc[t]
        BY <2>2, <2>5, <2>6 DEF Moved
      <3>2. proc[t].known
        BY <1>1, <2>2, <2>8 DEF TaskInv
      <3> QED BY <1>1, <2>2, <2>11, <2>13, <2>14, <3>1, <3>2 DEF TaskInv
    <2>16. t \in Keepers => KeeperInv(t)' /\ proc'[t] = proc[t]
      BY <1>1, <2>2, <2>6, <2>11, <2>13 DEF KeeperInv
    <2> QED BY <1>1, <2>5, <2>7, <2>10, <2>11, <2>15, <2>16, Preserved
  <1> QED BY <1>2, <1>3 DEF Purge

LEMMA DestroyStep ==
    ASSUME AuditInv, NEW t \in Tasks, Destroy(t) PROVE AuditInv'
  <1>1. /\ Shape /\ TaskInv(t) /\ At(t, "destroy") /\ Continue(t, <<>>)
        /\ UNCHANGED <<aflock, proc, thr, alive, mark, used, ops>> /\ todo[t] # <<>>
        /\ Head(todo[t]).do = "destroy"
    BY DEF AuditInv, Destroy, At
  <1>2. PICK c \in Afps : c = Arg(t)
    BY <1>1, HeadStep DEF OnAfp
  <1>3. AfpInv(c) /\ Destroying(t, c)
    BY <1>1, <1>2 DEF AuditInv, Destroying
  <1>4. RefCount(c) = 0
    BY <1>3 DEF AfpInv
  <1>5. /\ afp' \in [Afps -> AfpType] /\ afp'[c] = Unused /\ ~Unused.live /\ ~Unused.destroy
        /\ \A b \in Afps : b # c => afp'[b] = afp[b]
    <2>1. Unused \in AfpType /\ ~Unused.live /\ ~Unused.destroy
      BY DEF Unused, AfpType
    <2>2. afp' = [afp EXCEPT ![c] = Unused]
      BY <1>2 DEF Destroy
    <2> QED BY <1>1, <2>1, <2>2 DEF Shape
  <1>6. Moved(t) /\ Others(t)
    BY <1>1, Done DEF Moved
  <1>7. Shape' /\ Alone(t)
    BY <1>1, <1>5, <1>6 DEF Shape, Moved, Alone
  <1>8. \A a \in Afps : RefCount(a) = 0 \/ Grows(a)
    <2> SUFFICES ASSUME NEW a \in Afps, a # c PROVE Grows(a)
      BY <1>4
    <2>1. afp'[a] = afp[a] /\ afp[a].made \in Nat /\ afp[a].out \in Nat
      BY <1>1, <1>5 DEF Shape, AfpType
    <2> QED BY <2>1 DEF Grows
  <1>9. /\ TaskInv(t)' /\ (t \in Keepers => KeeperInv(t)')
        /\ \A f : Getting(t, f)' => Getting(t, f)
        /\ ~At(t, "take")' /\ ~At(t, "rele")' /\ ~At(t, "destroy")' /\ ~At(t, "swap")'
    BY <1>1, <1>7, <1>8, DoneTask
  <1>10. ASSUME NEW b \in Afps PROVE RefCount(b)' = RefCount(b)
    <2>1. /\ RefCount(b)' = RefCount(b) - Own(t, b) + Own(t, b)' - Of(t, b) + Of(t, b)'
          /\ RefCount(b) \in Nat
      BY <1>1, <1>6, RefStep
    <2>2. ~At(t, "swap") /\ ~At(t, "rele")
      BY <1>1 DEF At
    <2>3. Own(t, b)' = Own(t, b) /\ Of(t, b)' = Of(t, b) /\ Own(t, b) \in Nat /\ Of(t, b) \in Nat
      BY <1>1, <1>9, <2>2 DEF Own, Of, One
    <2> QED BY <2>1, <2>3
  <1>11. ASSUME NEW b \in Afps, b # c PROVE AfpInv(b)' /\ Calm(b)
    <2>1. Destroying(t, b)' <=> Destroying(t, b)
      BY <1>2, <1>9, <1>11 DEF Destroying
    <2>2. \A u \in Tasks : Destroying(u, b)' <=> Destroying(u, b)
      BY <1>6, <2>1, SameDestroyers
    <2> QED BY <1>5, <1>10, <1>11, <1>1, <2>2, StillSound DEF Kept1
  <1>12. AfpInv(c)' /\ Calm(c)
    <2>1. \A u \in Tasks : ~Destroying(u, c)'
      <3> SUFFICES ASSUME NEW u \in Tasks, Destroying(u, c)' PROVE FALSE
        OBVIOUS
      <3>1. u # t
        BY <1>9 DEF Destroying
      <3>2. Destroying(u, c)
        BY <1>6, <3>1 DEF Destroying, At, Arg, Others
      <3> QED BY <1>3, <3>1, <3>2 DEF AfpInv
    <2>2. Calm(c)
      BY <1>4, <1>5 DEF Calm
    <2>3. AfpInv(c)'
      BY <1>4, <1>5, <1>10, <2>1 DEF AfpInv
    <2> QED BY <2>2, <2>3
  <1> QED BY <1>1, <1>7, <1>9, <1>11, <1>12, Preserved

-----------------------------------------------------------------------------
(* Searching for an audit file.                                               *)
LEMMA AfterHead ==
    ASSUME Shape, NEW t \in Tasks, TaskInv(t), NEW p, At(t, p), NEW q, Has(t, q)
    PROVE  q = p \/ Before(p, q)
  <1>1. /\ todo[t] \in Seq(Steps) /\ Len(todo[t]) \in Nat /\ Len(todo[t]) # 0
        /\ todo[t][1].do = p /\ Ordered(todo[t])
    BY HeadStep DEF At, TaskInv
  <1>2. PICK i \in 1 .. Len(todo[t]) : todo[t][i].do = q
    BY DEF Has
  <1>3. CASE i = 1
    BY <1>1, <1>2, <1>3
  <1>4. CASE i # 1
    <2>1. 1 \in 1 .. Len(todo[t]) /\ 1 < i
      BY <1>1, <1>4
    <2> QED BY <1>1, <1>2, <2>1 DEF Ordered
  <1> QED BY <1>3, <1>4

(* A task that searches has no audit file.                                    *)
LEMMA Searching ==
    ASSUME AuditInv, NEW t \in Tasks, At(t, "get")
    PROVE  /\ thr[t].afp = Null /\ thr[t].active /\ proc[t].known /\ t \in alive
           /\ Arg(t) \in Files /\ Getting(t, Arg(t))
  <1>1. Shape /\ TaskInv(t) /\ todo[t] # <<>> /\ Head(todo[t]).do = "get" /\ ~At(t, "new")
    BY DEF AuditInv, At
  <1>2. ~Has(t, "relethr")
    <2>1. ~Before("get", "relethr")
      BY DEF Before, Purging
    <2> QED BY <1>1, <2>1, AfterHead
  <1>3. Has(t, "get") /\ Arg(t) \in Files /\ Getting(t, Arg(t))
    BY <1>1, HeadStep
  <1>4. thr[t].afp = Null /\ thr[t].active /\ t \in alive
    BY <1>1, <1>2, <1>3 DEF TaskInv, StepNames
  <1> QED BY <1>1, <1>3, <1>4 DEF TaskInv

LEMMA AfpFindStep ==
    ASSUME AuditInv, NEW t \in Tasks, AfpFind(t) PROVE AuditInv'
  <1>1. /\ Shape /\ TaskInv(t) /\ FindInv(t) /\ OneAfp /\ At(t, "get") /\ (t \in Keepers => KeeperInv(t))
        /\ aflock' = t /\ UNCHANGED <<afp, proc, thr, alive, mark, used, ops>>
        /\ thr[t].afp = Null /\ thr[t].active /\ proc[t].known /\ t \in alive
    BY Searching DEF AuditInv, AfpFind
  <1>2. PICK f \in Files : f = Arg(t) /\ Getting(t, f)
    BY <1>1, Searching
  <1>3. PICK a \in Matches(f) : Continue(t, <<Do("take", a)>>)
    BY <1>2 DEF AfpFind
  <1>4. a \in Afps /\ afp[a].live /\ ~afp[a].destroy /\ afp[a].file = f
    BY DEF Matches
  <1>5. \E k \in Keepers : proc[k].afp = a
    <2>1. Keeping(f)
      BY <1>1, <1>2, <1>4 DEF FindInv, Fresh
    <2>2. PICK k \in Keepers : proc[k].afp # Null /\ afp[proc[k].afp].file = f
      BY <2>1 DEF Keeping
    <2>3. k \in Tasks
      BY AuditAssumption DEF AuditAssumption
    <2>4. PICK b \in Afps : b = proc[k].afp
      BY <1>1, <2>2, <2>3 DEF Shape, ProcType
    <2>5. afp[b].live /\ ~afp[b].destroy
      BY <2>3, <2>4, Points
    <2> QED BY <1>1, <1>4, <2>2, <2>4, <2>5 DEF OneAfp
  <1>6. PICK x : x = Do("take", a)
    OBVIOUS
  <1>7. x \in Steps /\ x.do = "take" /\ x.x = a
    BY <1>4, <1>6 DEF Do, Steps, OnAfp
  <1>8. \A q : Before("get", q) => Before("take", q) /\ q \in {"hold", "swap"}
    BY DEF Before, Purging
  <1>9. /\ Moved(t)
        /\ \A q : Has(t, q)' => q = x.do \/ (Has(t, q) /\ Before("get", q))
        /\ \A g : Getting(t, g)' => Getting(t, g) /\ Before("get", "get")
        /\ \A q : At(t, q)' <=> q = x.do
        /\ Arg(t)' = x.x
    BY <1>1, <1>3, <1>6, <1>7, <1>8, Then
  <1>10. Shape' /\ Alone(t) /\ Others(t)
    BY <1>1, <1>9 DEF Shape, Moved, Alone
  <1>11. /\ ~Has(t, "new")' /\ ~Has(t, "snapshot")' /\ ~Has(t, "get")' /\ ~Has(t, "write")'
         /\ ~Has(t, "reap")' /\ ~Has(t, "obsolete")' /\ ~Has(t, "markerwrite")' /\ ~Has(t, "audit")'
         /\ (Has(t, "hold")' => Has(t, "hold")) /\ (Has(t, "swap")' => Has(t, "swap"))
    BY <1>7, <1>8, <1>9
  <1>12. /\ ~At(t, "append")' /\ ~At(t, "reap")' /\ ~At(t, "rele")' /\ ~At(t, "swap")' /\ ~At(t, "destroy")'
         /\ ~At(t, "rele") /\ ~At(t, "swap") /\ ~At(t, "destroy")
    BY <1>1, <1>7, <1>9 DEF At
  <1>13. TaskInv(t)'
    <2>1. Ordered(todo'[t]) /\ Paired(todo'[t])
      BY <1>9 DEF Moved
    <2> QED BY <1>1, <1>11, <1>12, <2>1 DEF TaskInv
  <1>14. t \in Keepers => KeeperInv(t)'
    BY <1>1, <1>11, <1>12 DEF KeeperInv
  <1>15. \A b \in Afps : AfpInv(b)' /\ Calm(b)
    <2>1. \A b \in Afps : Own(t, b)' + Of(t, b)' = Own(t, b) + Of(t, b)
      BY <1>1, <1>12 DEF Own, Of, One
    <2> QED BY <1>1, <1>10, <1>12, <2>1, Balanced
  <1>16. \E k \in Keepers : proc'[k].afp = Arg(t)'
    BY <1>1, <1>5, <1>7, <1>9
  <1> QED BY <1>1, <1>9, <1>10, <1>13, <1>14, <1>15, <1>16, Preserved

LEMMA AfpNewStep ==
    ASSUME AuditInv, NEW t \in Tasks, AfpNew(t) PROVE AuditInv'
  <1>1. /\ Shape /\ TaskInv(t) /\ FindInv(t) /\ OneAfp /\ At(t, "get") /\ (t \in Keepers => KeeperInv(t))
        /\ Continue(t, <<>>) /\ UNCHANGED <<aflock, proc, alive, mark, used, ops>>
        /\ thr[t].afp = Null /\ thr[t].active /\ proc[t].known /\ t \in alive
    BY Searching DEF AuditInv, AfpNew
  <1>2. PICK f \in Files : f = Arg(t) /\ Getting(t, f) /\ Matches(f) = {}
    BY <1>1, Searching DEF AfpNew
  <1>3. PICK a \in Afps : /\ ~afp[a].live
                          /\ afp' = [afp EXCEPT ![a] = [Unused EXCEPT !.live = TRUE, !.refcnt = 1, !.file = f]]
                          /\ thr' = [thr EXCEPT ![t].afp = a]
    BY <1>2 DEF AfpNew
  <1>4. RefCount(a) = 0 /\ (\A u \in Tasks : ~Destroying(u, a)) /\ f \in used
    <2>1. AfpInv(a)
      BY DEF AuditInv
    <2>2. ~afp[a].destroy
      BY <1>3, <2>1 DEF AfpInv, Unused
    <2> QED BY <1>1, <1>2, <1>3, <2>1, <2>2 DEF AfpInv, FindInv
  <1>5. PICK r : r = [Unused EXCEPT !.live = TRUE, !.refcnt = 1, !.file = f]
    OBVIOUS
  <1>6. /\ r \in AfpType /\ r.live /\ ~r.destroy /\ r.refcnt = 1 /\ r.file = f
        /\ r.buf = <<>> /\ r.made = 0 /\ r.out = 0
    <2>1. r = [live |-> TRUE, refcnt |-> 1, destroy |-> FALSE, obsolete |-> FALSE, file |-> f,
               buf |-> <<>>, werr |-> FALSE, made |-> 0, out |-> 0]
      BY <1>5 DEF Unused
    <2>2. <<>> \in Seq(Objs \cup {"MARKER"}) /\ f \in Files \cup {Null}
      OBVIOUS
    <2> HIDE <1>5
    <2> QED BY <2>1, <2>2 DEF AfpType
  <1>7. /\ afp' \in [Afps -> AfpType] /\ afp'[a] = r /\ \A b \in Afps : b # a => afp'[b] = afp[b]
    <2>1. afp' = [afp EXCEPT ![a] = r]
      BY <1>3, <1>5, Zenon
    <2> QED BY <1>1, <1>6, <2>1 DEF Shape
  <1>8. /\ thr' \in [Tasks -> ThrType] /\ thr'[t].afp = a /\ thr'[t].active = thr[t].active
        /\ \A u \in Tasks : u # t => thr'[u] = thr[u]
    BY <1>1, <1>3 DEF Shape, ThrType
  <1>9. /\ Moved(t) /\ Others(t)
        /\ \A q : Has(t, q)' => Has(t, q) /\ Before("get", q)
        /\ \A g : Getting(t, g)' => Before("get", "get")
        /\ ~At(t, "swap")' /\ ~At(t, "reap")' /\ ~At(t, "rele")' /\ ~At(t, "destroy")'
        /\ ~At(t, "take")' /\ ~At(t, "append")'
    BY <1>1, Done DEF Moved
  <1>10. \A q : Before("get", q) => q \in {"hold", "swap"}
    BY DEF Before, Purging
  <1>11. Shape' /\ Alone(t)
    BY <1>1, <1>7, <1>8, <1>9 DEF Shape, Moved, Alone
  <1>12. /\ ~Has(t, "new")' /\ ~Has(t, "snapshot")' /\ ~Has(t, "get")' /\ ~Has(t, "markerwrite")'
         /\ ~Has(t, "reap")' /\ ~Has(t, "audit")' /\ (\A g : ~Getting(t, g)')
         /\ (Has(t, "hold")' => Has(t, "hold")) /\ (Has(t, "swap")' => Has(t, "swap"))
    BY <1>9, <1>10
  <1>13. TaskInv(t)'
    <2>1. Ordered(todo'[t]) /\ Paired(todo'[t])
      BY <1>9 DEF Moved
    <2>2. a # Null
      BY AuditAssumption DEF AuditAssumption
    <2> QED BY <1>1, <1>8, <1>9, <1>12, <2>1, <2>2 DEF TaskInv
  <1>14. t \in Keepers => KeeperInv(t)'
    BY <1>1, <1>9, <1>12 DEF KeeperInv
  <1>15. ~At(t, "swap") /\ ~At(t, "rele") /\ ~At(t, "destroy")
    BY <1>1 DEF At
  <1>16. ASSUME NEW b \in Afps PROVE RefCount(b)' = RefCount(b) + One(b = a) /\ RefCount(b) \in Nat
    <2>1. /\ RefCount(b)' = RefCount(b) - Own(t, b) + Own(t, b)' - Of(t, b) + Of(t, b)'
          /\ RefCount(b) \in Nat
      BY <1>1, <1>8, <1>9, RefStep
    <2>2. Own(t, b) = 0 /\ Own(t, b)' = One(b = a) /\ Of(t, b)' = Of(t, b) /\ Of(t, b) \in Nat
      BY <1>1, <1>8, <1>9, <1>15, AuditAssumption DEF Own, Of, One, AuditAssumption
    <2>3. One(b = a) \in Nat
      BY DEF One
    <2> QED BY <2>1, <2>2, <2>3
  <1>17. \A b \in Afps : b # a => Grows(b)
    <2> SUFFICES ASSUME NEW b \in Afps, b # a PROVE Grows(b)
      OBVIOUS
    <2>1. afp'[b] = afp[b] /\ afp[b].made \in Nat /\ afp[b].out \in Nat
      BY <1>1, <1>7 DEF Shape, AfpType
    <2> QED BY <2>1 DEF Grows
  <1>18. ASSUME NEW b \in Afps PROVE AfpInv(b)' /\ (RefCount(b) = 0 \/ Grows(b))
    <2>0. \A u \in Tasks : Destroying(u, b)' <=> Destroying(u, b)
      BY <1>9, <1>15, SameDestroyers DEF Destroying
    <2>1. CASE b # a
      <3>1. RefCount(b)' = RefCount(b)
        BY <1>16, <2>1 DEF One
      <3> QED BY <1>1, <1>7, <1>17, <2>0, <2>1, <3>1, StillSound DEF Kept1
    <2>2. CASE b = a
      <3>1. RefCount(a)' = 1
        BY <1>4, <1>16 DEF One
      <3>2. r.made = r.out + Len(r.buf)
        BY <1>6
      <3>3. AfpInv(a)'
        BY <1>1, <1>4, <1>6, <1>7, <2>0, <2>2, <3>1, <3>2 DEF AfpInv
      <3> QED BY <1>4, <2>2, <3>3
    <2> QED BY <2>1, <2>2
  <1>19. OneAfp'
    <2>1. \A b \in Afps : afp[b].live /\ ~afp[b].destroy => afp[b].file # f
      BY <1>2 DEF Matches
    <2> QED BY <1>1, <1>6, <1>7, <2>1 DEF OneAfp
  <1>20. ASSUME NEW u \in Tasks PROVE FindInv(u)'
    <2>1. CASE u = t
      BY <1>9, <1>12, <2>1 DEF FindInv
    <2>2. CASE u # t
      <3>1. todo'[u] = todo[u] /\ FindInv(u)
        BY <1>9, <2>2 DEF Others, AuditInv
      <3>2. ASSUME NEW g \in Files, Getting(u, g)' PROVE g \in used' /\ (Keeping(g)' \/ Fresh(u, g)')
        <4>1. Getting(u, g) /\ g \in used /\ (Keeping(g) \/ Fresh(u, g))
          BY <3>1, <3>2 DEF FindInv, Getting
        <4>2. Keeping(g) => Keeping(g)'
          <5>1. Keepsafe
            BY <1>1 DEF Keepsafe
          <5> QED BY <1>4, <1>17, <5>1, StillKept
        <4>3. ASSUME Fresh(u, g) PROVE Fresh(u, g)'
          <5>1. g # f
            BY <1>2, <2>2, <4>3 DEF Fresh
          <5>2. \A b \in Afps : afp'[b].live => afp'[b].file # g
            BY <1>6, <1>7, <4>3, <5>1 DEF Fresh
          <5>3. ASSUME NEW v \in Tasks, Getting(v, g)' PROVE v = u
            <6>1. v # t
              BY <1>12, <5>3
            <6>2. Getting(v, g)
              BY <1>9, <5>3, <6>1 DEF Others, Getting
            <6> QED BY <4>3, <6>2 DEF Fresh
          <5> QED BY <5>2, <5>3 DEF Fresh
        <4> QED BY <1>1, <4>1, <4>2, <4>3
      <3>3. ASSUME At(u, "take")' PROVE \E k \in Keepers : proc'[k].afp = Arg(u)'
        BY <1>1, <3>1, <3>3 DEF At, Arg, FindInv
      <3> QED BY <3>2, <3>3 DEF FindInv
    <2> QED BY <2>1, <2>2
  <1> QED BY <1>11, <1>13, <1>14, <1>18, <1>19, <1>20, Together

-----------------------------------------------------------------------------
(* What tasks call.                                                           *)
LEMMA ExitStep ==
    ASSUME AuditInv, NEW t \in Tasks, Exit(t) PROVE AuditInv'
  <1>1. /\ Shape /\ TaskInv(t) /\ todo[t] = <<>> /\ ~thr[t].active /\ t \notin Keepers
        /\ alive' = alive \ {t} /\ UNCHANGED <<afp, aflock, proc, thr, todo, mark, used, ops>>
    BY DEF AuditInv, Exit, Outside
  <1>2. Shape' /\ Alone(t)
    BY <1>1 DEF Shape, Alone, Others
  <1>3. \A q : ~At(t, q) /\ ~At(t, q)' /\ ~Has(t, q) /\ ~Has(t, q)'
    BY <1>1 DEF At, Has
  <1>4. \A f : Getting(t, f)' => Getting(t, f)
    BY <1>1 DEF Getting
  <1>5. TaskInv(t)'
    BY <1>1, <1>3 DEF TaskInv
  <1> QED BY <1>1, <1>2, <1>3, <1>4, <1>5, PlainStep

(* A task that begins a list of steps.                                        *)
Entry == {"purge", "audit", "new", "snapshot", "leave"}

LEMMA BeginTask ==
    ASSUME AuditInv, NEW t \in Tasks, NEW s, NEW N, NEW h, NEW G, IsList(s, N, h, G), todo[t] = <<>>,
           todo' = [todo EXCEPT ![t] = s], h.do \in Entry,
           UNCHANGED <<afp, aflock, proc, alive>>, ops' \in 0 .. MaxOps,
           used' \subseteq Files, mark' \in [Tasks -> Nat], thr' \in [Tasks -> ThrType],
           \A u \in Tasks : u # t => thr'[u] = thr[u] /\ mark'[u] = mark[u],
           thr'[t].afp = thr[t].afp, thr'[t].active, t \in alive,
           "new" \in N \/ "snapshot" \in N => thr[t].afp = Null,
           "get" \in N => "relethr" \in N,
           "write" \in N \/ "reap" \in N \/ "obsolete" \in N => thr[t].afp # Null,
           "new" \in N => ~proc[t].known, h.do # "new" => proc[t].known,
           "reap" \in N \/ "markerwrite" \in N =>
              (thr[t].afp # Null => mark'[t] <= afp[thr[t].afp].made),
           t \in Keepers => "audit" \notin N /\ ("hold" \in N \/ "swap" \in N => proc[t].afp = Null)
    PROVE  /\ Shape' /\ Alone(t) /\ TaskInv(t)' /\ (t \in Keepers => KeeperInv(t)')
           /\ \A f : Getting(t, f)' => f \in G
           /\ ~At(t, "take")' /\ ~At(t, "rele")' /\ ~At(t, "rele") /\ ~At(t, "swap")' /\ ~At(t, "swap")
           /\ ~At(t, "destroy")' /\ ~At(t, "destroy")
  <1>1. Shape /\ TaskInv(t) /\ (t \in Keepers => KeeperInv(t))
    BY DEF AuditInv
  <1>2. /\ Moved(t)
        /\ \A q : Has(t, q)' <=> q \in N
        /\ \A f : Getting(t, f)' => f \in G
        /\ \A q : At(t, q)' <=> q = h.do
    BY <1>1, Begins
  <1>3. \A q : ~At(t, q)
    BY DEF At
  <1>4. Shape' /\ Alone(t)
    BY <1>1, <1>2 DEF Shape, Moved, Alone
  <1>5. /\ ~At(t, "take")' /\ ~At(t, "rele")' /\ ~At(t, "swap")' /\ ~At(t, "destroy")'
        /\ ~At(t, "append")' /\ ~At(t, "reap")'
    BY <1>2 DEF Entry
  <1>6. TaskInv(t)'
    <2>1. Ordered(todo'[t]) /\ Paired(todo'[t])
      BY <1>2 DEF Moved
    <2>2. At(t, "new")' \/ proc[t].known
      BY <1>2
    <2>3. /\ Has(t, "new")' <=> "new" \in N
          /\ Has(t, "snapshot")' <=> "snapshot" \in N
          /\ Has(t, "get")' <=> "get" \in N
          /\ Has(t, "relethr")' <=> "relethr" \in N
          /\ Has(t, "write")' <=> "write" \in N
          /\ Has(t, "reap")' <=> "reap" \in N
          /\ Has(t, "obsolete")' <=> "obsolete" \in N
          /\ Has(t, "markerwrite")' <=> "markerwrite" \in N
      BY <1>2
    <2> QED BY <1>1, <1>5, <2>1, <2>2, <2>3 DEF TaskInv
  <1>7. t \in Keepers => KeeperInv(t)'
    <2>1. /\ Has(t, "hold")' <=> "hold" \in N
          /\ Has(t, "swap")' <=> "swap" \in N
          /\ Has(t, "audit")' <=> "audit" \in N
      BY <1>2
    <2> QED BY <1>1, <1>5, <2>1 DEF KeeperInv
  <1> QED BY <1>2, <1>3, <1>4, <1>5, <1>6, <1>7

(* The steps of the calls.                                                    *)
LEMMA PlainSteps ==
    ASSUME NEW q \in Plain
    PROVE  Do(q, Null) \in Steps /\ Do(q, Null).do = q
  BY DEF Do, Steps

LEMMA PlainOne ==
    ASSUME NEW q \in Plain \ {"hold"}, NEW G
    PROVE  IsList(<<Do(q, Null)>>, {q}, Do(q, Null), G)
  <1>1. Do(q, Null) \in Steps /\ Do(q, Null).do = q /\ q # "get" /\ q # "hold"
    BY PlainSteps DEF Plain
  <1> QED BY <1>1, ListOne

LEMMA SyncList ==
    ASSUME NEW G
    PROVE  IsList(Sync, {"hold", "swap"}, Do("hold", Null), G) /\ Do("hold", Null).do = "hold"
  <1>1. "hold" \in Plain /\ "swap" \in Plain
    BY DEF Plain, StepNames, OnAfp, OnRec
  <1>2. /\ Do("hold", Null) \in Steps /\ Do("hold", Null).do = "hold"
        /\ Do("swap", Null) \in Steps /\ Do("swap", Null).do = "swap"
    BY <1>1, PlainSteps
  <1>3. Before("hold", "swap")
    BY DEF Before, Purging
  <1> QED BY <1>2, <1>3, ListTwo DEF Sync

LEMMA PurgeList ==
    ASSUME Shape, NEW G
    PROVE  /\ IsList(<<Do("purge", Purgeable)>>, {"purge"}, Do("purge", Purgeable), G)
           /\ Do("purge", Purgeable).do = "purge"
  <1>1. Purgeable \in SUBSET Tasks
    BY DEF Purgeable
  <1>2. Do("purge", Purgeable) \in Steps /\ Do("purge", Purgeable).do = "purge"
    BY <1>1 DEF Do, Steps
  <1> QED BY <1>2, ListOne

(* A call from inside the file system.                                        *)
LEMMA CallStep ==
    ASSUME AuditInv, NEW t \in Tasks, NEW s, NEW N, NEW h, IsList(s, N, h, {}), Call(t, s),
           h.do \in {"purge", "audit"}, "new" \notin N, "snapshot" \notin N, "get" \notin N,
           "write" \in N \/ "reap" \in N \/ "obsolete" \in N => thr[t].afp # Null,
           t \in Keepers => "audit" \notin N /\ "hold" \notin N /\ "swap" \notin N
    PROVE  AuditInv'
  <1>1. /\ Shape /\ TaskInv(t) /\ thr[t].active /\ todo[t] = <<>> /\ ops < MaxOps
        /\ todo' = [todo EXCEPT ![t] = s] /\ ops' = ops + 1
        /\ mark' = [mark EXCEPT ![t] = IF thr[t].afp = Null THEN 0 ELSE afp[thr[t].afp].made]
        /\ UNCHANGED <<afp, aflock, proc, alive, thr, used>>
    BY DEF AuditInv, Call, Begin
  <1>2. PICK m \in Nat : /\ m = IF thr[t].afp = Null THEN 0 ELSE afp[thr[t].afp].made
    BY <1>1 DEF Shape, ThrType, AfpType
  <1>3. /\ mark' \in [Tasks -> Nat] /\ mark'[t] = m /\ \A u \in Tasks : u # t => mark'[u] = mark[u]
    <2>1. mark' = [mark EXCEPT ![t] = m]
      BY <1>1, <1>2
    <2> QED BY <1>1, <2>1 DEF Shape
  <1>4. thr[t].afp # Null => mark'[t] <= afp[thr[t].afp].made
    BY <1>2, <1>3
  <1>5. ops' \in 0 .. MaxOps
    BY <1>1, AuditAssumption DEF Shape, AuditAssumption
  <1>6. proc[t].known /\ t \in alive /\ h.do \in Entry /\ h.do # "new"
    BY <1>1 DEF TaskInv, At, Entry
  <1>7. used' \subseteq Files /\ thr' \in [Tasks -> ThrType]
    BY <1>1 DEF Shape
  <1>8. /\ Shape' /\ Alone(t) /\ TaskInv(t)' /\ (t \in Keepers => KeeperInv(t)')
        /\ \A f : Getting(t, f)' => f \in {}
        /\ ~At(t, "take")' /\ ~At(t, "rele")' /\ ~At(t, "rele") /\ ~At(t, "swap")' /\ ~At(t, "swap")
        /\ ~At(t, "destroy")' /\ ~At(t, "destroy")
    BY <1>1, <1>3, <1>4, <1>5, <1>6, <1>7, BeginTask
  <1>9. \A f : Getting(t, f)' => Getting(t, f)
    BY <1>8
  <1> QED BY <1>1, <1>8, <1>9, PlainStep

LEMMA IoctlStep ==
    ASSUME AuditInv, NEW t \in Tasks, NEW v, NEW M, NEW g, IsList(v, M, g, {}), Ioctl(t, v),
           g.do \notin {"swap", "reap"}, \A q \in M : Before("purge", q),
           "get" \notin M,
           "write" \in M \/ "reap" \in M \/ "obsolete" \in M => thr[t].afp # Null,
           t \in Keepers => "audit" \notin M /\ "hold" \notin M /\ "swap" \notin M
    PROVE  AuditInv'
  <1>1. /\ IsList(<<Do("purge", Purgeable)>>, {"purge"}, Do("purge", Purgeable), {})
        /\ Do("purge", Purgeable).do = "purge"
    BY PurgeList DEF AuditInv
  <1>2. PICK u, h : u = <<Do("purge", Purgeable)>> /\ h = Do("purge", Purgeable)
    OBVIOUS
  <1>3. IsList(u, {"purge"}, h, {}) /\ h.do = "purge" /\ Call(t, u \o v)
    BY <1>1, <1>2 DEF Ioctl
  <1> HIDE <1>1, <1>2
  <1>4. IsList(u \o v, {"purge"} \cup M, h, {})
    BY <1>3, ListJoin
  <1>5. "new" \notin M /\ "snapshot" \notin M
    <2>1. ~Before("purge", "new") /\ ~Before("purge", "snapshot")
      BY DEF Before, Purging
    <2> QED BY <2>1
  <1>6. PICK s, N : s = u \o v /\ N = {"purge"} \cup M
    OBVIOUS
  <1>7. \A q : q \in N <=> q = "purge" \/ q \in M
    BY <1>6
  <1>8. IsList(s, N, h, {}) /\ Call(t, s)
    BY <1>3, <1>4, <1>6
  <1>9. /\ "new" \notin N /\ "snapshot" \notin N /\ "get" \notin N
        /\ "write" \in N \/ "reap" \in N \/ "obsolete" \in N => thr[t].afp # Null
        /\ t \in Keepers => "audit" \notin N /\ "hold" \notin N /\ "swap" \notin N
    BY <1>5, <1>7
  <1> QED BY <1>3, <1>8, <1>9, CallStep

LEMMA StartAuditStep ==
    ASSUME AuditInv, NEW t \in Tasks, StartAudit(t) PROVE AuditInv'
  <1>1. "start" \in Plain \ {"hold"}
    BY DEF Plain, StepNames, OnAfp, OnRec
  <1>2. IsList(<<Do("start", Null)>>, {"start"}, Do("start", Null), {}) /\ Do("start", Null).do = "start"
    BY <1>1, PlainOne, PlainSteps
  <1>3. \A q \in {"start"} : Before("purge", q)
    BY DEF Before, Purging
  <1>4. Ioctl(t, <<Do("start", Null)>>)
    BY DEF StartAudit
  <1> QED BY <1>2, <1>3, <1>4, IoctlStep

LEMMA SyncAuditStep ==
    ASSUME AuditInv, NEW t \in Tasks, SyncAudit(t) PROVE AuditInv'
  <1>1. "write" \in Plain /\ "reap" \in Plain
    BY DEF Plain, StepNames, OnAfp, OnRec
  <1>2. PICK x, y : x = Do("write", Null) /\ y = Do("reap", Null)
    OBVIOUS
  <1>3. x \in Steps /\ x.do = "write" /\ y \in Steps /\ y.do = "reap"
    BY <1>1, <1>2, PlainSteps
  <1>4. Before("write", "reap") /\ \A q \in {"write", "reap"} : Before("purge", q)
    BY DEF Before, Purging
  <1>5. IsList(<<x, y>>, {"write", "reap"}, x, {})
    BY <1>3, <1>4, ListTwo
  <1>6. Ioctl(t, <<x, y>>) /\ thr[t].afp # Null
    BY <1>2 DEF SyncAudit
  <1> QED BY <1>3, <1>4, <1>5, <1>6, IoctlStep

LEMMA AuditMarkerStep ==
    ASSUME AuditInv, NEW t \in Tasks, AuditMarker(t) PROVE AuditInv'
  <1>1. "markerwrite" \in Plain
    BY DEF Plain, StepNames, OnAfp, OnRec
  <1>2. PICK x, y : x = Do("audit", "MARKER") /\ y = Do("markerwrite", Null)
    OBVIOUS
  <1>3. x \in Steps /\ x.do = "audit" /\ y \in Steps /\ y.do = "markerwrite"
    <2>1. x \in Steps /\ x.do = "audit"
      BY <1>2 DEF Do, Steps, OnRec
    <2> QED BY <1>1, <1>2, <2>1, PlainSteps
  <1>4. Before("audit", "markerwrite") /\ \A q \in {"audit", "markerwrite"} : Before("purge", q)
    BY DEF Before, Purging
  <1>5. IsList(<<x, y>>, {"audit", "markerwrite"}, x, {})
    BY <1>3, <1>4, ListTwo
  <1>6. Ioctl(t, <<x, y>>) /\ t \notin Keepers
    BY <1>2 DEF AuditMarker
  <1> QED BY <1>3, <1>4, <1>5, <1>6, IoctlStep

LEMMA StopAuditStep ==
    ASSUME AuditInv, NEW t \in Tasks, StopAudit(t) PROVE AuditInv'
  <1>1. "write" \in Plain /\ "reap" \in Plain /\ "obsolete" \in Plain
        /\ "relethr" \in Plain \ {"hold"} /\ "off" \in Plain \ {"hold"}
    BY DEF Plain, StepNames, OnAfp, OnRec
  <1>2. PICK o, r, y : o = Do("off", Null) /\ r = Do("relethr", Null) /\ y = Do("hold", Null)
    OBVIOUS
  <1>3. /\ IsList(<<o>>, {"off"}, o, {}) /\ o.do = "off" /\ o \in Steps
        /\ IsList(ReleThr, {"relethr"}, r, {}) /\ r.do = "relethr"
        /\ IsList(Sync, {"hold", "swap"}, y, {}) /\ y.do = "hold"
    BY <1>1, <1>2, PlainOne, PlainSteps, SyncList DEF ReleThr
  <1>4. t \notin Keepers
    BY DEF StopAudit
  <1>5. CASE thr[t].afp = Null
    <2>1. <<>> \o <<o>> = <<o>>
      BY <1>3
    <2>2. Ioctl(t, <<o>> \o Sync)
      BY <1>2, <1>5, <2>1, Zenon DEF StopAudit
    <2>3. \A p \in {"off"} : \A q \in {"hold", "swap"} : Before(p, q)
      BY DEF Before, Purging
    <2>4. PICK v, M : v = <<o>> \o Sync /\ M = {"off"} \cup {"hold", "swap"}
      OBVIOUS
    <2>5. IsList(v, M, o, {})
      BY <1>3, <2>3, <2>4, ListJoin
    <2>6. \A q \in {"off"} \cup {"hold", "swap"} : Before("purge", q)
      BY DEF Before, Purging
    <2>7. /\ "get" \notin M /\ "write" \notin M /\ "reap" \notin M /\ "obsolete" \notin M
          /\ \A q \in M : Before("purge", q)
      BY <2>4, <2>6
    <2>8. Ioctl(t, v)
      BY <2>2, <2>4
    <2> QED BY <1>3, <1>4, <2>5, <2>7, <2>8, IoctlStep
  <1>6. CASE thr[t].afp # Null
    <2>1. PICK a, b, c : a = Do("write", Null) /\ b = Do("reap", Null) /\ c = Do("obsolete", Null)
      OBVIOUS
    <2>2. /\ a \in Steps /\ a.do = "write" /\ b \in Steps /\ b.do = "reap"
          /\ c \in Steps /\ c.do = "obsolete"
      BY <1>1, <2>1, PlainSteps
    <2>3. IsList(<<a, b, c>>, {"write", "reap", "obsolete"}, a, {})
      BY <2>2, ListThree
    <2>4. PICK v1, M1 : v1 = <<a, b, c>> \o ReleThr /\ M1 = {"write", "reap", "obsolete"} \cup {"relethr"}
      OBVIOUS
    <2>5. IsList(v1, M1, a, {})
      <3>1. \A p \in {"write", "reap", "obsolete"} : \A q \in {"relethr"} : Before(p, q)
        BY DEF Before, Purging
      <3> QED BY <1>3, <2>3, <2>4, <3>1, ListJoin
    <2>6. PICK v2, M2 : v2 = v1 \o <<o>> /\ M2 = M1 \cup {"off"}
      OBVIOUS
    <2>7. IsList(v2, M2, a, {})
      <3>1. \A p \in {"write", "reap", "obsolete"} \cup {"relethr"} : \A q \in {"off"} : Before(p, q)
        BY DEF Before, Purging
      <3> QED BY <1>3, <2>4, <2>5, <2>6, <3>1, ListJoin
    <2>8. PICK v, M : v = v2 \o Sync /\ M = M2 \cup {"hold", "swap"}
      OBVIOUS
    <2>9. IsList(v, M, a, {})
      <3>1. \A p \in ({"write", "reap", "obsolete"} \cup {"relethr"}) \cup {"off"} :
               \A q \in {"hold", "swap"} : Before(p, q)
        BY DEF Before, Purging
      <3>2. \A p \in M2 : \A q \in {"hold", "swap"} : Before(p, q)
        BY <2>4, <2>6, <3>1
      <3> QED BY <1>3, <2>7, <2>8, <3>2, ListJoin
    <2>10. /\ "get" \notin M /\ \A q \in M : Before("purge", q)
      <3>1. \A q \in (({"write", "reap", "obsolete"} \cup {"relethr"}) \cup {"off"}) \cup {"hold", "swap"} :
               Before("purge", q) /\ q # "get"
        BY DEF Before, Purging
      <3> QED BY <2>4, <2>6, <2>8, <3>1
    <2>11. Ioctl(t, v)
      BY <1>2, <1>6, <2>1, <2>4, <2>6, <2>8, Zenon DEF StopAudit
    <2> QED BY <1>4, <1>6, <2>2, <2>9, <2>10, <2>11, IoctlStep
  <1> QED BY <1>5, <1>6

LEMMA AccessStep ==
    ASSUME AuditInv, NEW t \in Tasks, NEW o \in Objs, Access(t, o) PROVE AuditInv'
  <1>1. PICK x : x = Do("audit", o)
    OBVIOUS
  <1>2. x \in Steps /\ x.do = "audit"
    BY <1>1 DEF Do, Steps, OnRec
  <1>3. IsList(<<x>>, {"audit"}, x, {})
    BY <1>2, ListOne
  <1>4. Call(t, <<x>>) /\ t \notin Keepers
    BY <1>1 DEF Access
  <1> QED BY <1>2, <1>3, <1>4, CallStep

(* Entering and leaving the file system.                                      *)
LEMMA VisitStep ==
    ASSUME AuditInv, NEW t \in Tasks, NEW s, NEW N, NEW h, IsList(s, N, h, {}), todo[t] = <<>>,
           todo' = [todo EXCEPT ![t] = s], thr' = [thr EXCEPT ![t].active = TRUE],
           UNCHANGED <<afp, aflock, proc, alive, mark, used, ops>>, t \in alive,
           N \subseteq {"new", "snapshot", "purge", "leave"}, h.do \in N,
           "new" \in N \/ "snapshot" \in N => ~thr[t].active,
           "new" \in N => ~proc[t].known, h.do # "new" => proc[t].known
    PROVE  AuditInv'
  <1>1. Shape /\ TaskInv(t)
    BY DEF AuditInv
  <1>2. /\ thr' \in [Tasks -> ThrType] /\ thr'[t].active /\ thr'[t].afp = thr[t].afp
        /\ \A u \in Tasks : u # t => thr'[u] = thr[u]
    BY <1>1 DEF Shape, ThrType
  <1>3. "new" \in N \/ "snapshot" \in N => thr[t].afp = Null
    BY <1>1 DEF TaskInv
  <1>4. h.do \in Entry /\ ops' \in 0 .. MaxOps /\ used' \subseteq Files /\ mark' \in [Tasks -> Nat]
    BY <1>1 DEF Shape, Entry
  <1>5. /\ "get" \notin N /\ "write" \notin N /\ "reap" \notin N /\ "obsolete" \notin N
        /\ "markerwrite" \notin N /\ "audit" \notin N /\ "hold" \notin N /\ "swap" \notin N
    OBVIOUS
  <1>6. /\ Shape' /\ Alone(t) /\ TaskInv(t)' /\ (t \in Keepers => KeeperInv(t)')
        /\ \A f : Getting(t, f)' => f \in {}
        /\ ~At(t, "take")' /\ ~At(t, "rele")' /\ ~At(t, "rele") /\ ~At(t, "swap")' /\ ~At(t, "swap")
        /\ ~At(t, "destroy")' /\ ~At(t, "destroy")
    BY <1>2, <1>3, <1>4, <1>5, BeginTask
  <1>7. \A f : Getting(t, f)' => Getting(t, f)
    BY <1>6
  <1>8. \A u \in Tasks : thr'[u].afp = thr[u].afp /\ proc'[u].afp = proc[u].afp
    BY <1>2
  <1> QED BY <1>6, <1>7, <1>8, PlainStep

LEMMA ExitFsStep ==
    ASSUME AuditInv, NEW t \in Tasks, ExitFs(t) PROVE AuditInv'
  <1>1. /\ Shape /\ TaskInv(t) /\ thr[t].active /\ todo[t] = <<>> /\ todo' = [todo EXCEPT ![t] = Leaving]
        /\ UNCHANGED <<afp, aflock, proc, thr, alive, mark, used, ops>>
    BY DEF AuditInv, ExitFs
  <1>2. "leave" \in Plain \ {"hold"}
    BY DEF Plain, StepNames, OnAfp, OnRec
  <1>3. IsList(Leaving, {"leave"}, Do("leave", Null), {}) /\ Do("leave", Null).do = "leave"
    BY <1>2, PlainOne, PlainSteps DEF Leaving
  <1>4. thr' = [thr EXCEPT ![t].active = TRUE]
    BY <1>1 DEF Shape, ThrType
  <1>5. t \in alive /\ proc[t].known
    BY <1>1 DEF TaskInv, At
  <1> QED BY <1>1, <1>3, <1>4, <1>5, VisitStep

EnterNames(t) == IF proc[t].known THEN {"snapshot"} ELSE {"new"} \cup {"snapshot"}

LEMMA EnterList ==
    ASSUME NEW t \in Tasks
    PROVE  \E h : /\ IsList(Enter(t), EnterNames(t), h, {})
                  /\ h.do = IF proc[t].known THEN "snapshot" ELSE "new"
  <1>1. "new" \in Plain \ {"hold"} /\ "snapshot" \in Plain \ {"hold"}
    BY DEF Plain, StepNames, OnAfp, OnRec
  <1>2. PICK x, y : x = Do("new", Null) /\ y = Do("snapshot", Null)
    OBVIOUS
  <1>3. /\ IsList(<<x>>, {"new"}, x, {}) /\ x.do = "new"
        /\ IsList(<<y>>, {"snapshot"}, y, {}) /\ y.do = "snapshot" /\ y \in Steps
    BY <1>1, <1>2, PlainOne, PlainSteps
  <1>4. CASE proc[t].known
    <2>1. <<>> \o <<y>> = <<y>>
      BY <1>3
    <2>2. Enter(t) = <<y>>
      BY <1>2, <1>4, <2>1, Zenon DEF Enter
    <2>3. EnterNames(t) = {"snapshot"}
      BY <1>4 DEF EnterNames
    <2> QED BY <1>3, <1>4, <2>2, <2>3
  <1>5. CASE ~proc[t].known
    <2>1. Enter(t) = <<x>> \o <<y>>
      BY <1>2, <1>5, Zenon DEF Enter
    <2>2. EnterNames(t) = {"new"} \cup {"snapshot"}
      BY <1>5 DEF EnterNames
    <2>3. \A p \in {"new"} : \A q \in {"snapshot"} : Before(p, q)
      BY DEF Before, Purging
    <2>4. PICK v, M : v = <<x>> \o <<y>> /\ M = {"new"} \cup {"snapshot"}
      OBVIOUS
    <2>5. IsList(v, M, x, {})
      BY <1>3, <2>3, <2>4, ListJoin
    <2> QED BY <1>3, <1>5, <2>1, <2>2, <2>4, <2>5
  <1> QED BY <1>4, <1>5

LEMMA EnterFsStep ==
    ASSUME AuditInv, NEW t \in Tasks, EnterFs(t) PROVE AuditInv'
  <1>1. /\ t \in alive /\ ~thr[t].active /\ todo[t] = <<>> /\ todo' = [todo EXCEPT ![t] = Enter(t)]
        /\ thr' = [thr EXCEPT ![t].active = TRUE]
        /\ UNCHANGED <<afp, aflock, proc, alive, mark, used, ops>>
    BY DEF EnterFs, Outside
  <1>2. PICK h : /\ IsList(Enter(t), EnterNames(t), h, {})
                 /\ h.do = IF proc[t].known THEN "snapshot" ELSE "new"
    BY EnterList
  <1>3. PICK s, N : s = Enter(t) /\ N = EnterNames(t)
    OBVIOUS
  <1>4. /\ N \subseteq {"new", "snapshot", "purge", "leave"} /\ h.do \in N
        /\ ("new" \in N => ~proc[t].known) /\ (h.do # "new" => proc[t].known)
    BY <1>2, <1>3 DEF EnterNames
  <1> QED BY <1>1, <1>2, <1>3, <1>4, VisitStep

LEMMA SyncFsStep ==
    ASSUME AuditInv, NEW t \in Tasks, SyncFs(t) PROVE AuditInv'
  <1>1. /\ t \in alive /\ ~thr[t].active /\ todo[t] = <<>>
        /\ todo' = [todo EXCEPT ![t] = Enter(t) \o <<Do("purge", {})>> \o Leaving]
        /\ thr' = [thr EXCEPT ![t].active = TRUE]
        /\ UNCHANGED <<afp, aflock, proc, alive, mark, used, ops>>
    BY DEF SyncFs, Outside
  <1>2. PICK h : /\ IsList(Enter(t), EnterNames(t), h, {})
                 /\ h.do = IF proc[t].known THEN "snapshot" ELSE "new"
    BY EnterList
  <1>3. PICK x, y : x = Do("purge", {}) /\ y = Do("leave", Null)
    OBVIOUS
  <1>4. /\ IsList(<<x>>, {"purge"}, x, {}) /\ x.do = "purge"
        /\ IsList(<<y>>, {"leave"}, y, {}) /\ y.do = "leave" /\ Leaving = <<y>>
    <2>1. "leave" \in Plain \ {"hold"}
      BY DEF Plain, StepNames, OnAfp, OnRec
    <2>2. x \in Steps /\ x.do = "purge"
      <3>1. {} \in SUBSET Tasks
        OBVIOUS
      <3> QED BY <1>3, <3>1 DEF Do, Steps
    <2>3. Leaving = <<y>>
      BY <1>3, Zenon DEF Leaving
    <2> QED BY <1>3, <2>1, <2>2, <2>3, ListOne, PlainOne, PlainSteps
  <1>5. PICK e, E : e = Enter(t) /\ E = EnterNames(t)
    OBVIOUS
  <1>6. E \subseteq {"new", "snapshot"} /\ h.do \in E
        /\ ("new" \in E => ~proc[t].known) /\ (h.do # "new" => proc[t].known)
    BY <1>2, <1>5 DEF EnterNames
  <1>7. PICK v, M : v = e \o <<x>> /\ M = E \cup {"purge"}
    OBVIOUS
  <1>8. IsList(v, M, h, {})
    <2>1. \A p \in {"new", "snapshot"} : Before(p, "purge")
      BY DEF Before, Purging
    <2>2. \A p \in E : \A q \in {"purge"} : Before(p, q)
      BY <1>6, <2>1
    <2>3. IsList(e, E, h, {})
      BY <1>2, <1>5
    <2> QED BY <1>4, <1>7, <2>2, <2>3, ListJoin
  <1>9. PICK s, N : s = v \o <<y>> /\ N = M \cup {"leave"}
    OBVIOUS
  <1>10. IsList(s, N, h, {})
    <2>1. \A p \in {"new", "snapshot", "purge"} : Before(p, "leave")
      BY DEF Before, Purging
    <2>2. \A p \in M : \A q \in {"leave"} : Before(p, q)
      BY <1>6, <1>7, <2>1
    <2> QED BY <1>4, <1>8, <1>9, <2>2, ListJoin
  <1>11. todo' = [todo EXCEPT ![t] = s]
    BY <1>1, <1>3, <1>4, <1>5, <1>7, <1>9, Zenon
  <1>12. /\ N \subseteq {"new", "snapshot", "purge", "leave"} /\ h.do \in N
         /\ ("new" \in N => ~proc[t].known) /\ (h.do # "new" => proc[t].known)
    BY <1>6, <1>7, <1>9
  <1> QED BY <1>1, <1>10, <1>11, <1>12, VisitStep

(* Setting an audit file: a file that nobody keeps was never set before.      *)
LEMMA SetList ==
    ASSUME Shape, NEW f \in Files
    PROVE  \E s, N, h :
             /\ s = <<Do("purge", Purgeable)>> \o ReleThr \o <<Do("get", f)>> \o Sync
             /\ IsList(s, N, h, {f}) /\ h.do = "purge"
             /\ \A q : q \in N <=> q \in {"purge", "relethr", "get", "hold", "swap"}
  <1>1. PICK x, r, g, y : /\ x = Do("purge", Purgeable) /\ r = Do("relethr", Null)
                          /\ g = Do("get", f) /\ y = Do("hold", Null)
    OBVIOUS
  <1>2. "relethr" \in Plain \ {"hold"}
    BY DEF Plain, StepNames, OnAfp, OnRec
  <1>3. g \in Steps /\ g.do = "get" /\ g.x = f
    BY <1>1 DEF Do, Steps
  <1>4. IsList(<<x>>, {"purge"}, x, {f}) /\ x.do = "purge"
    BY <1>1, PurgeList
  <1>5. IsList(ReleThr, {"relethr"}, r, {f}) /\ r.do = "relethr"
    BY <1>1, <1>2, PlainOne, PlainSteps DEF ReleThr
  <1>6. IsList(<<g>>, {"get"}, g, {f})
    BY <1>3, ListOne
  <1>7. IsList(Sync, {"hold", "swap"}, y, {f}) /\ y.do = "hold"
    BY <1>1, SyncList
  <1>8. PICK u, M : u = <<x>> \o ReleThr /\ M = {"purge"} \cup {"relethr"}
    OBVIOUS
  <1>9. IsList(u, M, x, {f})
    <2>1. \A p \in {"purge"} : \A q \in {"relethr"} : Before(p, q)
      BY DEF Before, Purging
    <2> QED BY <1>4, <1>5, <1>8, <2>1, ListJoin
  <1>10. PICK v, L : v = u \o <<g>> /\ L = M \cup {"get"}
    OBVIOUS
  <1>11. IsList(v, L, x, {f})
    <2>1. \A p \in {"purge"} \cup {"relethr"} : \A q \in {"get"} : Before(p, q)
      BY DEF Before, Purging
    <2> QED BY <1>3, <1>6, <1>8, <1>9, <1>10, <2>1, ListJoin
  <1>12. PICK s, N : s = v \o Sync /\ N = L \cup {"hold", "swap"}
    OBVIOUS
  <1>13. IsList(s, N, x, {f})
    <2>1. \A p \in {"purge", "relethr", "get"} : \A q \in {"hold", "swap"} : Before(p, q)
      BY DEF Before, Purging
    <2>2. \A p \in L : \A q \in {"hold", "swap"} : Before(p, q)
      BY <1>8, <1>10, <2>1
    <2> QED BY <1>7, <1>11, <1>12, <2>2, ListJoin
  <1>14. \A q : q \in N <=> q \in {"purge", "relethr", "get", "hold", "swap"}
    BY <1>8, <1>10, <1>12
  <1>15. s = <<Do("purge", Purgeable)>> \o ReleThr \o <<Do("get", f)>> \o Sync
    BY <1>1, <1>8, <1>10, <1>12, Zenon
  <1> QED BY <1>4, <1>13, <1>14, <1>15

LEMMA SetAfileStep ==
    ASSUME ~AnyReuse, AuditInv, NEW t \in Tasks, NEW f \in Files, SetAfile(t, f) PROVE AuditInv'
  <1>1. /\ Shape /\ TaskInv(t) /\ thr[t].active /\ todo[t] = <<>> /\ ops < MaxOps
        /\ ops' = ops + 1 /\ used' = used \cup {f}
        /\ mark' = [mark EXCEPT ![t] = IF thr[t].afp = Null THEN 0 ELSE afp[thr[t].afp].made]
        /\ (t \in Keepers => proc[t].afp = Null)
        /\ UNCHANGED <<afp, aflock, proc, alive, thr>>
    BY DEF AuditInv, SetAfile, Begin
  <1>2. f \notin used \/ Keeping(f)
    BY DEF SetAfile, Kept, Keeping
  <1>3. PICK s, N, h : /\ todo' = [todo EXCEPT ![t] = s] /\ IsList(s, N, h, {f}) /\ h.do = "purge"
                       /\ \A q : q \in N <=> q \in {"purge", "relethr", "get", "hold", "swap"}
    <2>1. PICK s, N, h :
             /\ s = <<Do("purge", Purgeable)>> \o ReleThr \o <<Do("get", f)>> \o Sync
             /\ IsList(s, N, h, {f}) /\ h.do = "purge"
             /\ \A q : q \in N <=> q \in {"purge", "relethr", "get", "hold", "swap"}
      BY <1>1, SetList
    <2>2. todo' = [todo EXCEPT ![t] = s]
      BY <2>1, Zenon DEF SetAfile, Begin
    <2> QED BY <2>1, <2>2
  <1>4. PICK m \in Nat : m = IF thr[t].afp = Null THEN 0 ELSE afp[thr[t].afp].made
    BY <1>1 DEF Shape, ThrType, AfpType
  <1>5. mark' \in [Tasks -> Nat] /\ \A u \in Tasks : u # t => mark'[u] = mark[u]
    <2>1. mark' = [mark EXCEPT ![t] = m]
      BY <1>1, <1>4
    <2> QED BY <1>1, <2>1 DEF Shape
  <1>6. ops' \in 0 .. MaxOps
    BY <1>1, AuditAssumption DEF Shape, AuditAssumption
  <1>7. proc[t].known /\ t \in alive /\ h.do \in Entry /\ h.do # "new"
    BY <1>1, <1>3 DEF TaskInv, At, Entry
  <1>8. used' \subseteq Files /\ used \subseteq used' /\ thr' \in [Tasks -> ThrType]
    BY <1>1 DEF Shape
  <1>9. /\ "new" \notin N /\ "snapshot" \notin N /\ "relethr" \in N /\ "write" \notin N
        /\ "reap" \notin N /\ "obsolete" \notin N /\ "markerwrite" \notin N /\ "audit" \notin N
    BY <1>3
  <1>10. /\ Shape' /\ Alone(t) /\ TaskInv(t)' /\ (t \in Keepers => KeeperInv(t)')
         /\ \A g : Getting(t, g)' => g \in {f}
         /\ ~At(t, "take")' /\ ~At(t, "rele")' /\ ~At(t, "rele") /\ ~At(t, "swap")' /\ ~At(t, "swap")
         /\ ~At(t, "destroy")' /\ ~At(t, "destroy")
    BY <1>1, <1>3, <1>5, <1>6, <1>7, <1>8, <1>9, BeginTask
  <1>11. \A a \in Afps : AfpInv(a)' /\ Calm(a)
    <2>1. \A b \in Afps : Own(t, b)' + Of(t, b)' = Own(t, b) + Of(t, b)
      BY <1>1, <1>10 DEF Own, Of, One
    <2> QED BY <1>1, <1>8, <1>10, <2>1, Balanced DEF Alone
  <1>12. OneAfp'
    BY <1>1 DEF AuditInv, OneAfp
  <1>13. ASSUME NEW u \in Tasks PROVE FindInv(u)'
    <2>1. ASSUME NEW g, Keeping(g) PROVE Keeping(g)'
      BY <1>1, <2>1 DEF Keeping
    <2>2. ASSUME f \notin used PROVE Fresh(t, f)'
      <3>1. \A a \in Afps : afp[a].live => afp[a].file # f
        BY <2>2 DEF AuditInv, AfpInv
      <3>2. ASSUME NEW v \in Tasks, v # t, Getting(v, f)' PROVE FALSE
        <4>1. Getting(v, f)
          BY <1>10, <3>2 DEF Alone, Others, Getting
        <4> QED BY <2>2, <4>1 DEF AuditInv, FindInv
      <3> QED BY <1>1, <3>1, <3>2 DEF Fresh
    <2>3. CASE u = t
      <3>1. ASSUME NEW g \in Files, Getting(t, g)' PROVE g \in used' /\ (Keeping(g)' \/ Fresh(t, g)')
        <4>1. g = f
          BY <1>10, <3>1
        <4> QED BY <1>1, <1>2, <2>1, <2>2, <4>1
      <3> QED BY <1>10, <2>3, <3>1 DEF FindInv
    <2>4. CASE u # t
      <3>1. todo'[u] = todo[u] /\ FindInv(u)
        BY <1>10, <2>4 DEF Alone, Others, AuditInv
      <3>2. ASSUME NEW g \in Files, Getting(u, g)' PROVE g \in used' /\ (Keeping(g)' \/ Fresh(u, g)')
        <4>1. Getting(u, g) /\ g \in used /\ (Keeping(g) \/ Fresh(u, g))
          BY <3>1, <3>2 DEF FindInv, Getting
        <4>2. CASE Keeping(g)
          BY <1>8, <2>1, <4>1, <4>2
        <4>3. CASE ~Keeping(g)
          <5>1. Fresh(u, g) /\ g # f
            BY <1>2, <4>1, <4>3
          <5>2. ASSUME NEW v \in Tasks, Getting(v, g)' PROVE v = u
            <6>1. v # t
              BY <1>10, <5>1, <5>2
            <6>2. Getting(v, g)
              BY <1>10, <5>2, <6>1 DEF Alone, Others, Getting
            <6> QED BY <5>1, <6>2 DEF Fresh
          <5>3. Fresh(u, g)'
            BY <1>1, <5>1, <5>2 DEF Fresh
          <5> QED BY <1>8, <4>1, <5>3
        <4> QED BY <4>2, <4>3
      <3>3. ASSUME At(u, "take")' PROVE \E k \in Keepers : proc'[k].afp = Arg(u)'
        BY <1>1, <3>1, <3>3 DEF At, Arg, FindInv
      <3> QED BY <3>2, <3>3 DEF FindInv
    <2> QED BY <2>3, <2>4
  <1> QED BY <1>10, <1>11, <1>12, <1>13, Together DEF Calm

-----------------------------------------------------------------------------
LEMMA InitInv ==
    Init => AuditInv
  <1> SUFFICES ASSUME Init PROVE AuditInv
    OBVIOUS
  <1>1. /\ afp = [a \in Afps |-> Unused] /\ aflock = Null
        /\ proc = [t \in Tasks |-> NoProc] /\ thr = [t \in Tasks |-> NoThr]
        /\ alive = Tasks /\ todo = [t \in Tasks |-> <<>>] /\ mark = [t \in Tasks |-> 0]
        /\ used = {} /\ ops = 0
    BY DEF Init
  <1>2. Unused \in AfpType /\ NoProc \in ProcType /\ NoThr \in ThrType
    <2>1. <<>> \in Seq(Objs \cup {"MARKER"})
      OBVIOUS
    <2> QED BY <2>1 DEF Unused, NoProc, NoThr, AfpType, ProcType, ThrType
  <1>3. Shape
    BY <1>1, <1>2, AuditAssumption DEF Shape, AuditAssumption
  <1>4. ASSUME NEW t \in Tasks
        PROVE  /\ todo[t] = <<>> /\ proc[t].afp = Null /\ ~proc[t].known /\ thr[t].afp = Null
               /\ ~thr[t].active /\ t \in alive
               /\ \A q : ~Has(t, q) /\ ~At(t, q) /\ ~Getting(t, q)
    BY <1>1 DEF NoProc, NoThr, Has, At, Getting
  <1>5. ASSUME NEW t \in Tasks PROVE TaskInv(t)
    <2>1. Ordered(todo[t]) /\ Paired(todo[t])
      BY <1>4 DEF Ordered, Paired
    <2> QED BY <1>4, <2>1 DEF TaskInv
  <1>6. ASSUME NEW k \in Keepers PROVE KeeperInv(k)
    BY <1>4, AuditAssumption DEF KeeperInv, AuditAssumption
  <1>7. ASSUME NEW t \in Tasks PROVE FindInv(t)
    BY <1>4 DEF FindInv
  <1>8. ASSUME NEW a \in Afps PROVE AfpInv(a)
    <2>1. afp[a] = Unused /\ ~afp[a].live /\ ~afp[a].destroy
      BY <1>1 DEF Unused
    <2>2. ByThr(a) = {} /\ ByProc(a) = {} /\ ByHold(a) = {} /\ ByRele(a) = {}
      BY <1>4, AuditAssumption DEF ByThr, ByProc, ByHold, ByRele, AuditAssumption
    <2>3. RefCount(a) = 0
      BY <2>2, FS_EmptySet DEF RefCount
    <2>4. \A t \in Tasks : ~Destroying(t, a)
      BY <1>4 DEF Destroying
    <2> QED BY <2>1, <2>3, <2>4 DEF AfpInv
  <1>9. OneAfp
    BY <1>1 DEF OneAfp, Unused
  <1> QED BY <1>3, <1>5, <1>6, <1>7, <1>8, <1>9 DEF AuditInv

LEMMA UnchangedInv ==
    ASSUME AuditInv, UNCHANGED vars PROVE AuditInv'
  <1>1. UNCHANGED <<afp, aflock, proc, thr, alive, todo, mark, used, ops>>
    BY DEF vars
  <1>2. Shape' /\ OneAfp'
    BY <1>1 DEF AuditInv, Shape, OneAfp
  <1>3. \A t \in Tasks : TaskInv(t)'
    BY <1>1 DEF AuditInv, TaskInv, Has, At
  <1>4. \A k \in Keepers : KeeperInv(k)'
    BY <1>1 DEF AuditInv, KeeperInv, Has, At
  <1>5. \A t \in Tasks : FindInv(t)'
    BY <1>1 DEF AuditInv, FindInv, Getting, Keeping, Fresh, At, Arg
  <1>6. ASSUME NEW a \in Afps PROVE AfpInv(a)'
    <2>1. RefCount(a)' = RefCount(a)
      BY <1>1 DEF RefCount, ByThr, ByProc, ByHold, ByRele, At, Arg
    <2> QED BY <1>1, <2>1 DEF AuditInv, AfpInv, Destroying, At, Arg
  <1> QED BY <1>2, <1>3, <1>4, <1>5, <1>6 DEF AuditInv

LEMMA NextInv ==
    ASSUME ~AnyReuse, AuditInv, [Next]_vars PROVE AuditInv'
  <1>1. CASE UNCHANGED vars
    BY <1>1, UnchangedInv
  <1>2. CASE Next
    <2>1. PICK t \in Tasks : Step(t) \/ User(t) \/ SyncFs(t)
      BY <1>2 DEF Next
    <2>2. CASE Step(t)
      BY <2>2, WriteStep, ReleaseProcStep, ReleaseThrStep, DestroyStep, NewProcStep, SnapshotStep,
         SyncHoldStep, SyncSwapStep, AuditOffStep, PurgeStep, AuditCheckStep, AppendRecStep,
         AfpFindStep, AfpTakeStep, AfpNewStep, AfpNewFailStep, StartStep, ReapStep, ObsoleteStep,
         MarkerWriteStep, LeaveStep DEF Step
    <2>3. CASE User(t)
      BY <2>3, EnterFsStep, ExitFsStep, SetAfileStep, StartAuditStep, StopAuditStep, SyncAuditStep,
         AuditMarkerStep, AccessStep, ExitStep DEF User
    <2>4. CASE SyncFs(t)
      BY <2>4, SyncFsStep
    <2> QED BY <2>1, <2>2, <2>3, <2>4
  <1> QED BY <1>1, <1>2

(* The audit files, processes and threads stay as AuditInv describes them,    *)
(* for every number of tasks, provided no file is set again that no keeper    *)
(* keeps: setting one while its structure is being released is the race of    *)
(* mfs_afpget with mvfs_afprele.                                              *)
THEOREM AuditInvariant ==
    ~AnyReuse => (Spec => []AuditInv)
  <1> SUFFICES ASSUME ~AnyReuse PROVE Spec => []AuditInv
    OBVIOUS
  <1>1. Init => AuditInv
    BY InitInv
  <1>2. AuditInv /\ [Next]_vars => AuditInv'
    BY NextInv
  <1> QED BY <1>1, <1>2, PTL DEF Spec

-----------------------------------------------------------------------------
(* What the invariant says of the references as they are counted in Refs.     *)
Tagged(k, S, n) == {<<k, t, n>> : t \in S}

LEMMA TaggedCount ==
    ASSUME NEW k, NEW n, NEW S, IsFiniteSet(S)
    PROVE  IsFiniteSet(Tagged(k, S, n)) /\ Cardinality(Tagged(k, S, n)) = Cardinality(S)
  <1>1. PICK F : F = [t \in S |-> <<k, t, n>>]
    OBVIOUS
  <1>2. F \in [S -> Tagged(k, S, n)]
    BY <1>1 DEF Tagged
  <1>3. F \in Injection(S, Tagged(k, S, n))
    BY <1>1, <1>2 DEF Injection, IsInjective
  <1>4. F \in Surjection(S, Tagged(k, S, n))
    BY <1>1, <1>2 DEF Surjection, Tagged
  <1>5. ExistsBijection(S, Tagged(k, S, n))
    BY <1>3, <1>4 DEF ExistsBijection, Bijection
  <1> QED BY <1>5, FS_Bijection

LEMMA Disjoint ==
    ASSUME NEW S, NEW T, IsFiniteSet(S), IsFiniteSet(T), S \cap T = {}
    PROVE  IsFiniteSet(S \cup T) /\ Cardinality(S \cup T) = Cardinality(S) + Cardinality(T)
  <1>1. Cardinality(S) \in Nat /\ Cardinality(T) \in Nat
    BY FS_CardinalityType
  <1> QED BY <1>1, FS_Union, FS_EmptySet

(* A release and a destruction are the next step of their task.               *)
LEMMA OnlyFirst ==
    ASSUME Shape, NEW t \in Tasks, TaskInv(t), NEW p \in {"rele", "destroy"}, NEW a,
           NEW i \in DOMAIN todo[t], todo[t][i] = Do(p, a)
    PROVE  i = 1 /\ At(t, p) /\ Arg(t) = a
  <1>1. todo[t] \in Seq(Steps) /\ Ordered(todo[t])
    BY DEF Shape, TaskInv
  <1>2. PICK s : s = todo[t]
    OBVIOUS
  <1>3. s \in Seq(Steps) /\ DOMAIN s = 1 .. Len(s) /\ Len(s) \in Nat /\ Len(s) # 0 /\ s # <<>>
    BY <1>1, <1>2
  <1>4. s[i].do = p /\ s[i].x = a
    BY <1>2 DEF Do
  <1>5. ~\E q : Before(q, p)
    BY DEF Before, Purging
  <1>6. i = 1
    <2> SUFFICES ASSUME i # 1 PROVE FALSE
      OBVIOUS
    <2>1. 1 \in 1 .. Len(s) /\ i \in 1 .. Len(s) /\ 1 < i
      BY <1>2, <1>3
    <2>2. Before(s[1].do, s[i].do)
      BY <1>1, <1>2, <2>1 DEF Ordered
    <2> QED BY <1>4, <1>5, <2>2
  <1>7. Head(s) = s[1]
    BY <1>3 DEF Head
  <1> QED BY <1>2, <1>3, <1>4, <1>6, <1>7 DEF At, Arg

LEMMA FirstStep ==
    ASSUME Shape, NEW t \in Tasks, NEW p \in {"rele", "destroy"}, NEW a, At(t, p), Arg(t) = a
    PROVE  1 \in DOMAIN todo[t] /\ todo[t][1] = Do(p, a)
  <1>1. PICK s : s = todo[t]
    OBVIOUS
  <1>2. s \in Seq(Steps) /\ s # <<>> /\ Head(s).do = p /\ Head(s).x = a
    BY <1>1 DEF Shape, At, Arg
  <1>3. 1 \in DOMAIN s /\ Head(s) = s[1] /\ s[1] \in Steps
    <2>1. Len(s) \in Nat /\ Len(s) # 0 /\ DOMAIN s = 1 .. Len(s)
      BY <1>2, EmptySeq
    <2> QED BY <1>2, <2>1 DEF Head
  <1>4. s[1] = Do(p, a)
    BY <1>2, <1>3 DEF Steps, Do
  <1> QED BY <1>1, <1>3, <1>4

LEMMA RefsCounted ==
    ASSUME AuditInv, NEW a \in Afps
    PROVE  IsFiniteSet(Refs(a)) /\ Cardinality(Refs(a)) = RefCount(a)
  <1> DEFINE T == Tagged("thr", ByThr(a), 0)
             P == Tagged("proc", ByProc(a), 0)
             H == Tagged("held", ByHold(a), 0)
             R == Tagged("step", ByRele(a), 1)
  <1>1. /\ IsFiniteSet(T) /\ Cardinality(T) = Cardinality(ByThr(a))
        /\ IsFiniteSet(P) /\ Cardinality(P) = Cardinality(ByProc(a))
        /\ IsFiniteSet(H) /\ Cardinality(H) = Cardinality(ByHold(a))
        /\ IsFiniteSet(R) /\ Cardinality(R) = Cardinality(ByRele(a))
    <2>1. /\ IsFiniteSet(ByThr(a)) /\ IsFiniteSet(ByProc(a))
          /\ IsFiniteSet(ByHold(a)) /\ IsFiniteSet(ByRele(a))
      BY FiniteRefs DEF ByThr, ByProc, ByHold, ByRele
    <2> QED BY <2>1, TaggedCount
  <1>2. UNION {{<<"step", t, i>> : i \in {i \in DOMAIN todo[t] : todo[t][i] = Do("rele", a)}} :
                t \in Tasks} = R
    <2> DEFINE U == UNION {{<<"step", t, i>> : i \in {i \in DOMAIN todo[t] : todo[t][i] = Do("rele", a)}} :
                            t \in Tasks}
    <2>1. ASSUME NEW x \in U PROVE x \in R
      <3>1. PICK t \in Tasks : \E i \in DOMAIN todo[t] : todo[t][i] = Do("rele", a) /\ x = <<"step", t, i>>
        BY <2>1
      <3>2. PICK i \in DOMAIN todo[t] : todo[t][i] = Do("rele", a) /\ x = <<"step", t, i>>
        BY <3>1
      <3>3. i = 1 /\ At(t, "rele") /\ Arg(t) = a
        BY <3>2, OnlyFirst DEF AuditInv
      <3> QED BY <3>2, <3>3 DEF Tagged, ByRele
    <2>2. ASSUME NEW x \in R PROVE x \in U
      <3>1. PICK t \in ByRele(a) : x = <<"step", t, 1>>
        BY <2>2 DEF Tagged
      <3>2. t \in Tasks /\ 1 \in DOMAIN todo[t] /\ todo[t][1] = Do("rele", a)
        BY FirstStep DEF ByRele, AuditInv
      <3> QED BY <3>1, <3>2
    <2> QED BY <2>1, <2>2
  <1>3. Refs(a) = ((T \cup P) \cup H) \cup R
    <2>1. /\ T = {<<"thr", t, 0>> : t \in {t \in Tasks : thr[t].afp = a}}
          /\ P = {<<"proc", t, 0>> : t \in {t \in Tasks : proc[t].afp = a}}
          /\ H = {<<"held", t, 0>> : t \in {t \in Tasks : At(t, "swap") /\ thr[t].afp = a}}
      BY Zenon DEF Tagged, ByThr, ByProc, ByHold
    <2> HIDE DEF T, P, H, R
    <2> QED BY <1>2, <2>1, Zenon DEF Refs
  <1>4. T \cap P = {} /\ (T \cup P) \cap H = {} /\ ((T \cup P) \cup H) \cap R = {}
    BY DEF Tagged
  <1> HIDE DEF T, P, H, R
  <1>5. IsFiniteSet(T \cup P) /\ Cardinality(T \cup P) = Cardinality(T) + Cardinality(P)
    BY <1>1, <1>4, Disjoint
  <1>6. /\ IsFiniteSet((T \cup P) \cup H)
        /\ Cardinality((T \cup P) \cup H) = Cardinality(T \cup P) + Cardinality(H)
    BY <1>1, <1>4, <1>5, Disjoint
  <1>7. /\ IsFiniteSet(((T \cup P) \cup H) \cup R)
        /\ Cardinality(((T \cup P) \cup H) \cup R) = Cardinality((T \cup P) \cup H) + Cardinality(R)
    BY <1>1, <1>4, <1>6, Disjoint
  <1> QED BY <1>1, <1>3, <1>5, <1>6, <1>7 DEF RefCount

LEMMA DestroyersOf ==
    ASSUME AuditInv, NEW a \in Afps
    PROVE  Destroyers(a) = {t \in Tasks : Destroying(t, a)}
  <1>1. ASSUME NEW t \in Tasks, NEW i \in DOMAIN todo[t], todo[t][i] = Do("destroy", a)
        PROVE  Destroying(t, a)
    BY <1>1, OnlyFirst DEF Destroying, AuditInv
  <1>2. ASSUME NEW t \in Tasks, Destroying(t, a)
        PROVE  \E i \in DOMAIN todo[t] : todo[t][i] = Do("destroy", a)
    BY <1>2, FirstStep DEF Destroying, AuditInv
  <1> QED BY <1>1, <1>2 DEF Destroyers

LEMMA InvSound ==
    ASSUME AuditInv PROVE AfpsSound
  <1>1. TypeOK
    <2>1. Shape
      BY DEF AuditInv
    <2>2. ASSUME NEW t \in Tasks, NEW i \in DOMAIN todo[t] PROVE todo[t][i].do \in StepNames
      <3>1. todo[t] \in Seq(Steps)
        BY <2>1 DEF Shape
      <3>2. todo[t][i] \in Steps
        BY <3>1
      <3> QED BY <3>2, StepFields
    <2> QED BY <2>1, <2>2 DEF TypeOK, Shape, AfpType, ProcType, ThrType
  <1>2. NoFreedAfp
    <2> SUFFICES ASSUME NEW a \in Afps, ~afp[a].live
                 PROVE  Refs(a) = {} /\ \A t \in Tasks : At(t, "take") => Arg(t) # a
      BY DEF NoFreedAfp
    <2>1. Refs(a) = {}
      <3>1. RefCount(a) = 0
        BY DEF AuditInv, AfpInv
      <3> QED BY <3>1, RefsCounted, FS_EmptySet
    <2>2. ASSUME NEW t \in Tasks, At(t, "take"), Arg(t) = a PROVE FALSE
      <3>1. PICK k \in Keepers : proc[k].afp = a
        BY <2>2 DEF AuditInv, FindInv
      <3>2. k \in Tasks
        BY AuditAssumption DEF AuditAssumption
      <3> QED BY <3>1, <3>2, Points
    <2> QED BY <2>1, <2>2
  <1>3. RefsExact
    <2> SUFFICES ASSUME NEW a \in Afps
                 PROVE  /\ afp[a].live /\ ~afp[a].destroy =>
                             afp[a].refcnt > 0 /\ afp[a].refcnt = Cardinality(Refs(a))
                        /\ afp[a].live /\ afp[a].destroy => Cardinality(Destroyers(a)) = 1
                        /\ ~afp[a].live => Destroyers(a) = {}
      BY DEF RefsExact
    <2>1. AfpInv(a) /\ afp[a].refcnt \in Nat
      BY DEF AuditInv, Shape, AfpType
    <2>2. afp[a].live /\ ~afp[a].destroy => afp[a].refcnt > 0 /\ afp[a].refcnt = Cardinality(Refs(a))
      <3>1. \A n \in Nat : n # 0 => n > 0
        OBVIOUS
      <3> QED BY <2>1, <3>1, RefsCounted DEF AfpInv
    <2>3. ASSUME afp[a].destroy PROVE Cardinality(Destroyers(a)) = 1
      <3>1. PICK t \in Tasks : Destroying(t, a)
        BY <2>1, <2>3 DEF AfpInv
      <3>2. Destroyers(a) = {t}
        BY <2>1, <3>1, DestroyersOf DEF AfpInv
      <3> QED BY <3>2, FS_Singleton
    <2>4. ASSUME ~afp[a].live PROVE Destroyers(a) = {}
      <3>1. ~afp[a].destroy
        BY <2>1, <2>4 DEF AfpInv, Unused
      <3> QED BY <2>1, <3>1, DestroyersOf DEF AfpInv
    <2> QED BY <2>2, <2>3, <2>4
  <1>4. OneAfpPerFile
    <2> SUFFICES ASSUME NEW f \in Files PROVE Cardinality(Matches(f)) <= 1
      BY DEF OneAfpPerFile
    <2>1. CASE Matches(f) = {}
      BY <2>1, FS_EmptySet
    <2>2. CASE Matches(f) # {}
      <3>1. PICK a : a \in Matches(f)
        BY <2>2
      <3>2. Matches(f) = {a}
        BY <3>1 DEF Matches, AuditInv, OneAfp
      <3>3. Cardinality(Matches(f)) = 1
        BY <3>2, FS_Singleton, Zenon
      <3> QED BY <3>3
    <2> QED BY <2>1, <2>2
  <1> QED BY <1>1, <1>2, <1>3, <1>4 DEF AfpsSound

(* mfs_afphold, mfs_afpget, mvfs_afprele and mfs_afpdestroy: every audit file *)
(* has exactly as many references as threads, processes and steps under way   *)
(* point to it, none is freed while pointed to, one task destroys one that is *)
(* to be destroyed, and a file has one structure.                             *)
THEOREM AfpsAreSound ==
    ~AnyReuse => (Spec => []AfpsSound)
  <1> SUFFICES ASSUME ~AnyReuse PROVE Spec => []AfpsSound
    OBVIOUS
  <1>1. Spec => []AuditInv
    BY AuditInvariant
  <1>2. AuditInv => AfpsSound
    BY InvSound
  <1> QED BY <1>1, <1>2, PTL

(* mfs_audit and mvfs_auditwrite_int: what was accepted is in the buffer or   *)
(* in the file unless an error is kept to be reported, and a structure about  *)
(* to be freed has an empty buffer.                                           *)
THEOREM NothingIsLost ==
    ~AnyReuse => (Spec => []NothingLost)
  <1> SUFFICES ASSUME ~AnyReuse PROVE Spec => []NothingLost
    OBVIOUS
  <1>1. Spec => []AuditInv
    BY AuditInvariant
  <1>2. AuditInv => NothingLost
    BY DEF AuditInv, AfpInv, NothingLost
  <1> QED BY <1>1, <1>2, PTL

(* MVFS_CMD_STOP_AUDIT, SYNC_AUDIT and AUDIT_MARKER: when the call is about   *)
(* to return no error, everything any task had recorded in the audit file     *)
(* before the call began is in the file.                                      *)
THEOREM SyncIsComplete ==
    ~AnyReuse => (Spec => []SyncComplete)
  <1> SUFFICES ASSUME ~AnyReuse PROVE Spec => []SyncComplete
    OBVIOUS
  <1>1. Spec => []AuditInv
    BY AuditInvariant
  <1>2. ASSUME AuditInv PROVE SyncComplete
    <2> SUFFICES ASSUME NEW t \in Tasks, At(t, "reap"), ~afp[thr[t].afp].werr
                 PROVE  afp[thr[t].afp].out >= mark[t]
      BY DEF SyncComplete
    <2>1. TaskInv(t) /\ Shape
      BY <1>2 DEF AuditInv
    <2>2. mark[t] <= afp[thr[t].afp].out /\ thr[t].afp # Null
      <3>1. Has(t, "reap")
        BY <2>1, HeadStep DEF At
      <3> QED BY <2>1, <3>1 DEF TaskInv
    <2>3. mark[t] \in Nat /\ afp[thr[t].afp].out \in Nat
      BY <2>1, <2>2 DEF Shape, ThrType, AfpType
    <2>4. \A m, n \in Nat : m <= n => n >= m
      OBVIOUS
    <2> QED BY <2>2, <2>3, <2>4
  <1>3. AuditInv => SyncComplete
    BY <1>2
  <1> QED BY <1>1, <1>3, PTL
=============================================================================
