------------------------------ MODULE NameCache ------------------------------
(***************************************************************************)
(* What the directory name cache promises its users: an answer it gives    *)
(* out was given by the view server, and is not older than what this host  *)
(* has been told about the name.                                           *)
(*                                                                         *)
(* Answers are identified by the time (a count of changes of the VOB) at   *)
(* which the view server gave them.  A query is a name and a build handle. *)
(***************************************************************************)
EXTENDS Naturals

CONSTANTS Threads, Keys, Bhs, Null

VARIABLES
  clock,   \* changes made so far, by anybody
  known,   \* the time up to which this host has been told of changes of a name
  asked,   \* the answer each thread has got and not yet cached
  cache    \* the answer a lookup would find for each query

nvars == <<clock, known, asked, cache>>

NInit ==
  /\ clock = 0
  /\ known = [k \in Keys |-> 0]
  /\ asked = [t \in Threads |-> Null]
  /\ cache = [q \in Keys \X Bhs |-> Null]

\* Somebody changes what a name stands for.
Changed == clock' = clock + 1 /\ UNCHANGED <<known, asked, cache>>

\* The view server answers, perhaps by making the change itself.
Asked(t) ==
  /\ clock' \in {clock, clock + 1}
  /\ \E k \in Keys : asked' = [asked EXCEPT ![t] = [k |-> k, at |-> clock']]
  /\ UNCHANGED <<known, cache>>

\* An answer is entered for some build handles, unless it is outdated.  What was there for the
\* other handles stays or goes.
Filled(t) ==
  /\ asked[t] # Null /\ asked[t].at >= known[asked[t].k]
  /\ \E B \in SUBSET Bhs, D \in SUBSET (Keys \X Bhs) :
       cache' = [q \in Keys \X Bhs |->
                   IF q[1] = asked[t].k /\ q[2] \in B THEN asked[t].at ELSE
                   IF q \in D THEN Null ELSE cache[q]]
  /\ asked' = [asked EXCEPT ![t] = Null]
  /\ UNCHANGED <<clock, known>>

\* The answer is not used, or not yet.
Forgotten(t) == asked' = [asked EXCEPT ![t] = Null] /\ UNCHANGED <<clock, known, cache>>

\* Answers are dropped.
Dropped ==
  /\ \E D \in SUBSET (Keys \X Bhs) :
       cache' = [q \in Keys \X Bhs |-> IF q \in D THEN Null ELSE cache[q]]
  /\ UNCHANGED <<clock, known, asked>>

\* This host learns of changes; no outdated answer is left.
Told(t) ==
  /\ \A k \in Keys : known'[k] \in known[k] .. clock
  /\ \A k \in Keys, b \in Bhs : cache[k, b] # Null => cache[k, b] >= known'[k]
  /\ asked' \in {asked, [asked EXCEPT ![t] = Null]}
  /\ UNCHANGED <<clock, cache>>

NNext == Changed \/ Dropped \/ \E t \in Threads : Asked(t) \/ Filled(t) \/ Forgotten(t) \/ Told(t)

NSpec == NInit /\ [][NNext]_nvars
=============================================================================
