--------------------------- MODULE LockScreen_proofs ---------------------------
(***************************************************************************)
(* Proofs for LockScreen, for any outputs, keys, password and number of    *)
(* locks.  No request breaks the protocol but one for a lock the shell did *)
(* not wait for: that of a lock() without outputs, or of a shell that is   *)
(* stopped.  The session is unlocked only for the password, by the         *)
(* compositor on its own, or because the shell was stopped while it had    *)
(* locked it.  Every surface agrees with the prompt.                       *)
(*                                                                         *)
(* The two queues are what makes it hard: the invariant says, of every     *)
(* request and every event under way, what the compositor's object and the *)
(* shell's flags are meanwhile, until a request breaks the protocol.       *)
(***************************************************************************)
EXTENDS LockScreen, FiniteSets, WellFoundedInduction, SequenceTheorems, TLAPS

Surface == [output : Outputs, locked : BOOLEAN, password : Texts, status : Statuses, field : Texts]
Request == [name : {"lock", "destroy", "unlock"}, id : 1 .. MaxLocks]
Event == [name : {"locked", "finished"}, id : 1 .. MaxLocks]
States == {"new", "locked", "denied", "over", "gone"}

-----------------------------------------------------------------------------
(* The filter.  A set of naturals that is not empty has a least member, which  *)
(* is the induction that what a recursive function computes asks for.          *)

LEMMA LeastMember ==
  ASSUME NEW T \in SUBSET Nat, T # {}
  PROVE  \E m \in T : \A k \in T : m <= k
<1> DEFINE R == {r \in Nat \X Nat : r[1] < r[2]}
<1>1. IsWellFoundedOn(R, Nat)  BY NatLessThanWellFounded DEF OpToRel
<1>2. \A x, y \in Nat : y < x => <<y, x>> \in R
  <2> SUFFICES ASSUME NEW x \in Nat, NEW y \in Nat, y < x PROVE <<y, x>> \in R
    OBVIOUS
  <2>1. <<y, x>> \in Nat \X Nat  OBVIOUS
  <2> QED  BY <2>1
<1> HIDE DEF R
<1>3. PICK m \in T : \A k \in T : <<k, m>> \notin R  BY <1>1, WFMin, Zenon
<1>4. \A k \in T : ~(k < m)  BY <1>2, <1>3
<1> QED  BY <1>4

\* A step of the filter, and the filter of the first n members.
Take(g, s, S, n) == IF s[n] \in S THEN Append(g[n - 1], s[n]) ELSE g[n - 1]
Takes(g, s, S, m) == g = [n \in 0 .. m |-> IF n = 0 THEN <<>> ELSE Take(g, s, S, n)]

LEMMA TakesExists ==
  ASSUME NEW s, NEW S, NEW m \in Nat
  PROVE  \E g : Takes(g, s, S, m)
<1> DEFINE Bad == {k \in Nat : ~ \E g : Takes(g, s, S, k)}
<1> SUFFICES ASSUME Bad # {} PROVE FALSE
  OBVIOUS
<1>1. PICK k \in Bad : \A l \in Bad : k <= l  BY LeastMember
<1>2. k # 0
  <2>1. Takes([n \in 0 .. 0 |-> <<>>], s, S, 0)  BY DEF Takes
  <2> QED  BY <1>1, <2>1
<1>3. k - 1 \in Nat /\ k - 1 \notin Bad  BY <1>1, <1>2
<1>4. PICK g : Takes(g, s, S, k - 1)  BY <1>3
<1> DEFINE h == [n \in 0 .. k |-> IF n = k THEN Take(g, s, S, k) ELSE g[n]]
<1>5. \A n \in 0 .. k : h[n] = IF n = 0 THEN <<>> ELSE Take(h, s, S, n)
  <2> TAKE n \in 0 .. k
  <2>1. CASE n = 0  BY <2>1, <1>2, <1>3, <1>4 DEF Takes
  <2>2. CASE n = k
    <3>1. h[n - 1] = g[n - 1]  BY <2>2, <1>2
    <3> QED  BY <2>2, <1>2, <3>1 DEF Take
  <2>3. CASE n # 0 /\ n # k
    <3>1. h[n] = g[n] /\ h[n - 1] = g[n - 1]  BY <2>3
    <3>2. g[n] = Take(g, s, S, n)  BY <2>3, <1>4 DEF Takes
    <3> QED  BY <2>3, <3>1, <3>2 DEF Take
  <2> QED  BY <2>1, <2>2, <2>3
<1>6. Takes(h, s, S, k)
  <2> HIDE DEF Bad
  <2>1. h = [n \in 0 .. k |-> h[n]]  OBVIOUS
  <2> HIDE DEF h
  <2> QED  BY <1>5, <2>1 DEF Takes
<1> QED  BY <1>1, <1>6

\* The sequence t lists the members of the first n of s that are in S, by
\* increasing positions p.
Lists(p, t, s, S, n) ==
  /\ p \in [1 .. Len(t) -> 1 .. n]
  /\ \A k, l \in 1 .. Len(t) : k < l => p[k] < p[l]
  /\ \A k \in 1 .. Len(t) : t[k] = s[p[k]] /\ s[p[k]] \in S
  /\ \A i \in 1 .. n : s[i] \in S => \E k \in 1 .. Len(t) : p[k] = i

LEMMA TakesLists ==
  ASSUME NEW E, NEW s \in Seq(E), NEW S, NEW g, Takes(g, s, S, Len(s))
  PROVE  \A n \in 0 .. Len(s) : g[n] \in Seq(E) /\ \E p : Lists(p, g[n], s, S, n)
<1> DEFINE Listed(n) == g[n] \in Seq(E) /\ \E p : Lists(p, g[n], s, S, n)
           Bad == {n \in 0 .. Len(s) : ~Listed(n)}
<1> SUFFICES ASSUME Bad # {} PROVE FALSE
  OBVIOUS
<1>0. Bad \in SUBSET Nat  OBVIOUS
<1>1. PICK n \in Bad : \A k \in Bad : n <= k
  <2> HIDE DEF Bad
  <2> QED  BY <1>0, LeastMember, Zenon
<1>2. n \in 0 .. Len(s) /\ ~Listed(n)  BY <1>1
<1>3. CASE n = 0
  <2>1. g[0] = <<>>  BY DEF Takes
  <2>2. Lists(<<>>, <<>>, s, S, 0)  BY DEF Lists
  <2> QED  BY <1>2, <1>3, <2>1, <2>2
<1>4. CASE n # 0
  <2>1. n - 1 \in 0 .. Len(s) /\ n \in 1 .. Len(s)  BY <1>2, <1>4
  <2>2. Listed(n - 1)
    <3>1. n - 1 \notin Bad
      <4> HIDE DEF Bad, Listed
      <4> QED  BY <1>1, <1>2, <2>1
    <3> HIDE DEF Listed
    <3> QED  BY <2>1, <3>1
  <2>3. g[n] = Take(g, s, S, n)  BY <2>1, <1>4 DEF Takes
  <2> DEFINE t == g[n - 1]
  <2>4. t \in Seq(E)  BY <2>2
  <2>5. PICK p : Lists(p, t, s, S, n - 1)  BY <2>2
  <2> HIDE DEF Listed
  <2>6. CASE s[n] \notin S
    <3>1. g[n] = t  BY <2>3, <2>6 DEF Take
    <3>2. Lists(p, t, s, S, n)  BY <2>1, <2>4, <2>5, <2>6 DEF Lists
    <3> QED  BY <1>2, <2>4, <3>1, <3>2 DEF Listed
  <2>7. CASE s[n] \in S
    <3> DEFINE q == [k \in 1 .. Len(t) + 1 |-> IF k = Len(t) + 1 THEN n ELSE p[k]]
               u == Append(t, s[n])
    <3>1. g[n] = u  BY <2>3, <2>7 DEF Take
    <3>2. s[n] \in E  BY <2>1
    <3>3. /\ u \in Seq(E) /\ Len(u) = Len(t) + 1 /\ u[Len(t) + 1] = s[n]
          /\ \A k \in 1 .. Len(t) : u[k] = t[k]
      BY <2>4, <3>2
    <3>4. Len(t) \in Nat  BY <2>4
    <3>5. q[Len(t) + 1] = n /\ \A k \in 1 .. Len(t) : q[k] = p[k]  BY <3>4
    <3>6. q \in [1 .. Len(u) -> 1 .. n]  BY <2>1, <2>5, <3>3, <3>4 DEF Lists
    <3> HIDE DEF t, u, q
    <3>a. \A k \in 1 .. Len(t) : p[k] \in 1 .. n - 1  BY <2>5 DEF Lists
    <3>b. /\ \A k, l \in 1 .. Len(t) : k < l => p[k] < p[l]
          /\ \A k \in 1 .. Len(t) : t[k] = s[p[k]] /\ s[p[k]] \in S
          /\ \A i \in 1 .. n - 1 : s[i] \in S => \E k \in 1 .. Len(t) : p[k] = i
      BY <2>5 DEF Lists
    <3>c. \A k \in 1 .. Len(u) : k = Len(t) + 1 \/ k \in 1 .. Len(t)  BY <3>3, <3>4
    <3>7. \A k, l \in 1 .. Len(u) : k < l => q[k] < q[l]
      BY SMTT(30), <2>1, <3>4, <3>5, <3>a, <3>b, <3>c
    <3>8. \A k \in 1 .. Len(u) : u[k] = s[q[k]] /\ s[q[k]] \in S
      BY <2>7, <3>3, <3>5, <3>b, <3>c
    <3>9. \A i \in 1 .. n : s[i] \in S => \E k \in 1 .. Len(u) : q[k] = i
      <4> TAKE i \in 1 .. n
      <4>1. CASE i = n  BY <4>1, <3>3, <3>4, <3>5
      <4>2. CASE i # n
        <5>1. i \in 1 .. n - 1  BY <4>2, <2>1
        <5> HAVE s[i] \in S
        <5>2. PICK k \in 1 .. Len(t) : p[k] = i  BY <5>1, <3>b
        <5>3. k \in 1 .. Len(u) /\ q[k] = i  BY <5>2, <3>3, <3>4, <3>5
        <5> QED  BY <5>3
      <4> QED  BY <4>1, <4>2
    <3>10. Lists(q, u, s, S, n)  BY <3>6, <3>7, <3>8, <3>9 DEF Lists
    <3> QED  BY <1>2, <3>1, <3>3, <3>10 DEF Listed
  <2> QED  BY <2>6, <2>7
<1> QED  BY <1>3, <1>4

\* Only lists the members of s that are in S.
LEMMA OnlyLists ==
  ASSUME NEW E, NEW s \in Seq(E), NEW S
  PROVE  Only(s, S) \in Seq(E) /\ \E p : Lists(p, Only(s, S), s, S, Len(s))
<1>1. Len(s) \in Nat  OBVIOUS
<1> DEFINE g == CHOOSE f : Takes(f, s, S, Len(s))
<1>2. Takes(g, s, S, Len(s))  BY <1>1, TakesExists, Zenon
<1>3. Only(s, S) = g[Len(s)]  BY DEF Only, Takes, Take
<1> HIDE DEF g
<1> QED  BY <1>1, <1>2, <1>3, TakesLists

-----------------------------------------------------------------------------
(* The invariant: what the user sees, and what is on the wire. *)

Covered ==
  /\ IsActive => {r.output : r \in Range(instances)} = Range(outputs)
  /\ ~IsActive => instances = <<>>
  /\ \A i, j \in 1 .. Len(instances) : instances[i].output = instances[j].output => i = j

Agree ==
  \A i \in 1 .. Len(instances) :
    instances[i].locked = locked /\ instances[i].password = password /\ instances[i].status = status

\* Nothing is typed before the session is locked, and without a lag what is
\* typed is the password.
Screen ==
  /\ outputs \in Seq(Outputs) /\ IsInjective(outputs)
  /\ password \in Texts /\ typed \in Seq(Keys) /\ status \in Statuses
  /\ lagged \in BOOLEAN /\ pointer \in Outputs \cup {None}
  /\ instances \in Seq(Surface)
  /\ Covered /\ Agree
  /\ pending => password = <<>>
  /\ ~lagged => password = typed

WireTypes ==
  /\ made \in 0 .. MaxLocks /\ lock \in {0, made}
  /\ pending \in BOOLEAN /\ locked \in BOOLEAN /\ ended \in Ends
  /\ requests \in Seq(Request) /\ happened \in Seq(Event) /\ objects \in Seq(States)
  /\ session \in 0 .. Len(objects) /\ error \in 0 .. Len(objects)
  /\ ~(pending /\ locked) /\ (lock # 0 <=> IsActive)

\* The lock objects the shell may ask to unlock.
Allowed == IF ended = "locked" THEN Nat ELSE granted

\* The locks that are asked for are the newest, in their order.
LockRequests ==
  /\ Len(objects) <= made
  /\ \A i \in 1 .. Len(requests) :
       requests[i].name = "lock" => requests[i].id \in Len(objects) + 1 .. made
  /\ \A k \in Len(objects) + 1 .. made :
       \E i \in 1 .. Len(requests) : requests[i].name = "lock" /\ requests[i].id = k
  /\ \A i, j \in 1 .. Len(requests) :
       requests[i].name = "lock" /\ requests[j].name = "lock" /\ i < j => requests[i].id < requests[j].id

\* Request i destroys its object in the way the object asks for: it was denied, or it
\* was given up by the compositor, or it is unlocked for a password or by a shell
\* that was stopped while it was locked.  When the shell did not wait for the answer
\* it may be in any state, and the request for the lock may be under way as well.
Rightful(i) == LET r == requests[i] IN
  /\ r.id <= made /\ r.id # lock
  /\ r.name = "destroy" => r.id \in hasty \/ (r.id <= Len(objects) /\ objects[r.id] = "denied")
  /\ r.name = "unlock" =>
       /\ r.id <= Len(objects)
       /\ objects[r.id] = "over" \/ (objects[r.id] = "locked" /\ r.id \in Allowed)
  /\ r.id > Len(objects) =>
       \E j \in 1 .. i - 1 : requests[j].name = "lock" /\ requests[j].id = r.id

\* An object is destroyed once, after the shell has let it go.
DestroyRequests ==
  /\ \A i \in 1 .. Len(requests) : requests[i].name # "lock" => Rightful(i)
  /\ \A i, j \in 1 .. Len(requests) :
       requests[i].name # "lock" /\ requests[j].name # "lock" /\ requests[i].id = requests[j].id
         => i = j

\* An event tells of the state its object has, or had before it was given up or
\* destroyed.
Events ==
  \A i \in 1 .. Len(happened) : LET h == happened[i] IN
    /\ h.id <= Len(objects)
    /\ h.name = "locked" => objects[h.id] \in {"locked", "over", "gone"}
    /\ h.name = "finished" => objects[h.id] \in {"denied", "over", "gone"}

\* What the shell takes its object to be is what it is, or an event that says
\* otherwise is under way.
OwnLock ==
  /\ locked => lock <= Len(objects) /\ objects[lock] \in {"locked", "over"}
  /\ pending /\ lock <= Len(objects) =>
       /\ objects[lock] # "gone"
       /\ objects[lock] = "locked" =>
            \E i \in 1 .. Len(happened) : happened[i].id = lock /\ happened[i].name = "locked"
       /\ \A i \in 1 .. Len(happened) :
            happened[i].id = lock /\ happened[i].name = "finished" /\ objects[lock] # "denied" =>
              \E j \in 1 .. i - 1 : happened[j].id = lock /\ happened[j].name = "locked"

\* The session is locked for the one object that is, and an object that is not
\* destroyed is held by the shell or about to be, while the shell runs.
Session ==
  /\ \A k \in 1 .. Len(objects) : objects[k] = "locked" <=> session = k
  /\ \A k \in 1 .. made :
       \/ k <= Len(objects) /\ objects[k] = "gone"
       \/ k = lock \/ ended # "no"
       \/ \E i \in 1 .. Len(requests) : requests[i].id = k /\ requests[i].name # "lock"

Queues == LockRequests /\ DestroyRequests /\ Events /\ OwnLock /\ Session

\* After an error the compositor does nothing any more, and the shell goes on until it
\* notices.
Wire ==
  /\ WireTypes
  /\ error # 0 => error \in hasty
  /\ error = 0 => Queues

IInv == Screen /\ Wire

wireVars == <<lockVars, historyVars, requests, happened, serverVars>>
screenVars == <<outputs, pending, locked, instances, promptVars, pointer>>

-----------------------------------------------------------------------------
(* The wire. *)

LEMMA Typed ==
  ASSUME WireTypes
  PROVE  /\ MaxLocks \in Nat /\ made \in Nat /\ made <= MaxLocks /\ lock \in Nat
         /\ session \in Nat /\ error \in Nat
         /\ Len(requests) \in Nat /\ Len(objects) \in Nat /\ Len(happened) \in Nat
         /\ \A i \in 1 .. Len(requests) : requests[i].id \in Nat \ {0}
         /\ \A i \in 1 .. Len(happened) : happened[i].id \in Nat \ {0}
<1>1. MaxLocks \in Nat  BY LockAssumption
<1>2. /\ made \in 0 .. MaxLocks /\ lock \in {0, made}
      /\ requests \in Seq(Request) /\ happened \in Seq(Event) /\ objects \in Seq(States)
      /\ session \in 0 .. Len(objects) /\ error \in 0 .. Len(objects)
  BY DEF WireTypes
<1>3. Len(requests) \in Nat /\ Len(objects) \in Nat /\ Len(happened) \in Nat  BY <1>2
<1>4. made \in Nat /\ made <= MaxLocks /\ lock \in Nat /\ session \in Nat /\ error \in Nat
  BY <1>1, <1>2, <1>3
<1>5. \A i \in 1 .. Len(requests) : requests[i].id \in Nat \ {0}
  <2>1. \A i \in 1 .. Len(requests) : requests[i] \in Request  BY <1>2
  <2> QED  BY <1>1, <2>1 DEF Request
<1>6. \A i \in 1 .. Len(happened) : happened[i].id \in Nat \ {0}
  <2>1. \A i \in 1 .. Len(happened) : happened[i] \in Event  BY <1>2
  <2> QED  BY <1>1, <2>1 DEF Event
<1> QED  BY <1>1, <1>3, <1>4, <1>5, <1>6

LEMMA WireInit == Init => Wire
<1> SUFFICES ASSUME Init PROVE Wire
  OBVIOUS
<1>1. MaxLocks \in Nat  BY LockAssumption
<1>2. /\ made = 0 /\ lock = 0 /\ pending = FALSE /\ locked = FALSE /\ requests = <<>> /\ happened = <<>>
      /\ objects = <<>> /\ session = 0 /\ error = 0 /\ ended = "no"
  BY DEF Init
<1>3. /\ requests \in Seq(Request) /\ happened \in Seq(Event) /\ objects \in Seq(States)
      /\ made \in 0 .. MaxLocks /\ session \in 0 .. Len(objects) /\ error \in 0 .. Len(objects)
      /\ ended \in Ends
  BY <1>1, <1>2 DEF Ends
<1>4. WireTypes  BY <1>2, <1>3, Zenon DEF WireTypes, IsActive
<1> QED  BY <1>2, <1>4 DEF Wire, Queues, LockRequests, DestroyRequests, Events, OwnLock, Session

LEMMA WireKept == Wire /\ UNCHANGED wireVars => Wire'
<1> SUFFICES ASSUME Wire, UNCHANGED wireVars PROVE Wire'
  OBVIOUS
<1>1. /\ made' = made /\ lock' = lock /\ pending' = pending /\ locked' = locked
      /\ ended' = ended /\ Allowed' = Allowed /\ hasty' = hasty
      /\ requests' = requests /\ happened' = happened
      /\ objects' = objects /\ session' = session /\ error' = error
  BY DEF wireVars, lockVars, historyVars, serverVars, Allowed
<1>2. WireTypes'  BY <1>1 DEF Wire, WireTypes, IsActive
<1>3. LockRequests => LockRequests'  BY <1>1 DEF LockRequests
<1>4. DestroyRequests => DestroyRequests'
  <2>1. \A i : Rightful(i) => Rightful(i)'  BY <1>1 DEF Rightful
  <2> QED  BY <1>1, <2>1 DEF DestroyRequests
<1>5. Events => Events'  BY <1>1 DEF Events
<1>6. OwnLock => OwnLock'  BY <1>1 DEF OwnLock
<1>7. Session => Session'  BY <1>1 DEF Session
<1> QED  BY <1>1, <1>2, <1>3, <1>4, <1>5, <1>6, <1>7 DEF Wire, Queues

\* What is true of every request stays true of what the next one joins.
LEMMA AppendFacts ==
  ASSUME NEW E, NEW s \in Seq(E), NEW e \in E
  PROVE  /\ Append(s, e) \in Seq(E)
         /\ Len(Append(s, e)) = Len(s) + 1
         /\ Append(s, e)[Len(s) + 1] = e
         /\ \A i \in 1 .. Len(s) : Append(s, e)[i] = s[i]
         /\ \A i \in 1 .. Len(s) + 1 : i \in 1 .. Len(s) \/ i = Len(s) + 1
OBVIOUS

LEMMA TailFacts ==
  ASSUME NEW E, NEW s \in Seq(E), s # <<>>
  PROVE  /\ Tail(s) \in Seq(E) /\ Len(s) \in Nat /\ Len(s) >= 1
         /\ Len(Tail(s)) = Len(s) - 1
         /\ Head(s) = s[1] /\ s[1] \in E
         /\ \A i \in 1 .. Len(s) - 1 : Tail(s)[i] = s[i + 1]
OBVIOUS

\* A lock that is asked for is newer than all that requests are under way for.
LEMMA NewestLock ==
  ASSUME WireTypes, LockRequests, DestroyRequests
  PROVE  \A i \in 1 .. Len(requests) : requests[i].id <= made
<1> TAKE i \in 1 .. Len(requests)
<1>1. CASE requests[i].name = "lock"  BY <1>1, Typed DEF LockRequests
<1>2. CASE requests[i].name # "lock"  BY <1>2 DEF DestroyRequests, Rightful
<1> QED  BY <1>1, <1>2

\* A request that destroys an object stays right, whether or not it moves up.
LEMMA StaysRightful ==
  ASSUME NEW i, NEW k, Rightful(i), requests'[k] = requests[i],
         requests[i].id \in Nat, requests[i].id # lock',
         made \in Nat, made' \in Nat, made <= made',
         hasty \subseteq hasty', requests[i].id \in Allowed => requests[i].id \in Allowed',
         Len(objects) \in Nat, Len(objects') \in Nat, Len(objects) <= Len(objects'),
         requests[i].id <= Len(objects) =>
           \/ objects'[requests[i].id] = objects[requests[i].id]
           \/ objects[requests[i].id] = "new"
           \/ objects[requests[i].id] = "locked" /\ objects'[requests[i].id] = "over",
         requests[i].id > Len(objects') =>
           \A j \in 1 .. i - 1 : requests[j].name = "lock" /\ requests[j].id = requests[i].id =>
             \E l \in 1 .. k - 1 : requests'[l] = requests[j]
  PROVE  Rightful(k)'
<1> DEFINE r == requests[i]
<1>1. /\ r.id <= made /\ r.id # lock
      /\ r.name = "destroy" => r.id \in hasty \/ (r.id <= Len(objects) /\ objects[r.id] = "denied")
      /\ r.name = "unlock" =>
           /\ r.id <= Len(objects)
           /\ objects[r.id] = "over" \/ (objects[r.id] = "locked" /\ r.id \in Allowed)
      /\ r.id > Len(objects) =>
           \E j \in 1 .. i - 1 : requests[j].name = "lock" /\ requests[j].id = r.id
  BY DEF Rightful
<1> HIDE DEF r
<1>2. r.id <= made' /\ r.id # lock'  BY <1>1 DEF r
<1>3. r.name = "destroy" => r.id \in hasty' \/ (r.id <= Len(objects') /\ objects'[r.id] = "denied")
  BY <1>1 DEF r
<1>4. r.name = "unlock" =>
        /\ r.id <= Len(objects')
        /\ objects'[r.id] = "over" \/ (objects'[r.id] = "locked" /\ r.id \in Allowed')
  BY <1>1 DEF r
<1>5. r.id > Len(objects') =>
        \E l \in 1 .. k - 1 : requests'[l].name = "lock" /\ requests'[l].id = r.id
  BY <1>1 DEF r
<1>6. requests'[k] = r  BY DEF r
<1> QED  BY <1>2, <1>3, <1>4, <1>5, <1>6 DEF Rightful

\* lock() with outputs: the shell holds the lock it asks for.
LEMMA WireLockHeld ==
  ASSUME Wire, Lock, outputs # <<>>
  PROVE  Wire'
<1> DEFINE r == [name |-> "lock", id |-> made + 1]
<1>1. /\ ~IsActive /\ made + 1 <= MaxLocks
      /\ made' = made + 1 /\ lock' = made + 1 /\ pending' = TRUE /\ locked' = FALSE
      /\ ended = "no" /\ ended' = ended /\ Allowed' = Allowed /\ hasty' = hasty
      /\ requests' = Append(requests, r) /\ happened' = happened
      /\ objects' = objects /\ session' = session /\ error' = error
  BY DEF Lock, Sends, serverVars, Allowed
<1>2. WireTypes /\ lock = 0  BY <1>1 DEF Wire, WireTypes
<1>3. r \in Request  BY <1>1, <1>2, Typed DEF Request
<1>4. requests \in Seq(Request)  BY <1>2 DEF WireTypes
<1>5. r.name = "lock" /\ r.id = made + 1  OBVIOUS
<1> HIDE DEF r
<1>6. /\ requests' \in Seq(Request) /\ Len(requests') = Len(requests) + 1
      /\ requests'[Len(requests) + 1] = r
      /\ \A i \in 1 .. Len(requests) : requests'[i] = requests[i]
      /\ \A i \in 1 .. Len(requests) + 1 : i \in 1 .. Len(requests) \/ i = Len(requests) + 1
  BY <1>1, <1>3, <1>4, AppendFacts
<1>7. WireTypes'
  <2>1. made + 1 \in 0 .. MaxLocks /\ made + 1 # 0  BY <1>1, <1>2, Typed
  <2>2. /\ happened \in Seq(Event) /\ objects \in Seq(States) /\ ended \in Ends
        /\ session \in 0 .. Len(objects) /\ error \in 0 .. Len(objects)
    BY <1>2, Zenon DEF WireTypes
  <2> QED  BY <1>1, <1>6, <2>1, <2>2, Zenon DEF WireTypes, IsActive
<1>8. ASSUME error = 0 PROVE Queues'
  <2>0. /\ LockRequests /\ DestroyRequests /\ Events /\ OwnLock /\ Session
        /\ Len(requests) \in Nat /\ made \in Nat /\ Len(objects) \in Nat
    BY <1>2, <1>8, Typed DEF Wire, Queues
  <2>1. \A i \in 1 .. Len(requests) : requests[i].id <= made /\ requests[i].id \in Nat
    BY <1>2, <2>0, NewestLock, Typed
  <2>2. LockRequests'
    <3>1. Len(objects) <= made + 1  BY <2>0 DEF LockRequests
    <3>2. \A i \in 1 .. Len(requests') :
            requests'[i].name = "lock" => requests'[i].id \in Len(objects) + 1 .. made + 1
      BY <1>5, <1>6, <2>0 DEF LockRequests
    <3>3. \A k \in Len(objects) + 1 .. made + 1 :
            \E i \in 1 .. Len(requests') : requests'[i].name = "lock" /\ requests'[i].id = k
      <4> TAKE k \in Len(objects) + 1 .. made + 1
      <4>1. CASE k = made + 1
        <5>1. Len(requests) + 1 \in 1 .. Len(requests')  BY <1>6, <2>0
        <5> QED  BY <1>5, <1>6, <4>1, <5>1
      <4>2. CASE k # made + 1
        <5>1. k \in Len(objects) + 1 .. made  BY <2>0, <4>2
        <5>2. PICK i \in 1 .. Len(requests) : requests[i].name = "lock" /\ requests[i].id = k
          BY <2>0, <5>1 DEF LockRequests
        <5>3. i \in 1 .. Len(requests') /\ requests'[i] = requests[i]  BY <1>6, <2>0
        <5> QED  BY <5>2, <5>3
      <4> QED  BY <4>1, <4>2
    <3>4. \A i, j \in 1 .. Len(requests') :
            requests'[i].name = "lock" /\ requests'[j].name = "lock" /\ i < j
              => requests'[i].id < requests'[j].id
      BY <1>5, <1>6, <2>0, <2>1 DEF LockRequests
    <3> QED  BY <1>1, <3>1, <3>2, <3>3, <3>4 DEF LockRequests
  <2>3. DestroyRequests'
    <3>1. \A i \in 1 .. Len(requests') : requests'[i].name # "lock" =>
            i \in 1 .. Len(requests) /\ requests'[i] = requests[i] /\ requests[i].name # "lock"
      BY <1>5, <1>6
    <3>2. ASSUME NEW i \in 1 .. Len(requests), requests[i].name # "lock" PROVE Rightful(i)'
      <4>1. Rightful(i) /\ requests'[i] = requests[i]  BY <1>6, <2>0, <3>2 DEF DestroyRequests
      <4>2. requests[i].id # lock' /\ made <= made' /\ made' \in Nat  BY <1>1, <2>0, <2>1
      <4>3. \A j \in 1 .. i - 1 : requests'[j] = requests[j]  BY <1>6, <2>0
      <4> QED  BY <1>1, <2>0, <2>1, <4>1, <4>2, <4>3, StaysRightful
    <3>3. \A i, j \in 1 .. Len(requests') :
            requests'[i].name # "lock" /\ requests'[j].name # "lock" /\ requests'[i].id = requests'[j].id
              => i = j
      BY <2>0, <3>1 DEF DestroyRequests
    <3> QED  BY <3>1, <3>2, <3>3 DEF DestroyRequests
  <2>4. Events'  BY <1>1, <2>0 DEF Events
  <2>5. OwnLock'
    <3>1. ~(lock' <= Len(objects'))  BY <1>1, <2>0 DEF LockRequests
    <3> QED  BY <1>1, <3>1 DEF OwnLock
  <2>6. Session'
    <3>1. \A k \in 1 .. made + 1 :
            \/ k <= Len(objects) /\ objects[k] = "gone"
            \/ k = made + 1
            \/ \E i \in 1 .. Len(requests') : requests'[i].id = k /\ requests'[i].name # "lock"
      <4> SUFFICES ASSUME NEW k \in 1 .. made, ~(k <= Len(objects) /\ objects[k] = "gone")
                   PROVE  \E i \in 1 .. Len(requests') : requests'[i].id = k /\ requests'[i].name # "lock"
        BY <2>0
      <4>1. k # lock  BY <1>2
      <4>2. PICK i \in 1 .. Len(requests) : requests[i].id = k /\ requests[i].name # "lock"
        BY <1>1, <2>0, <4>1 DEF Session
      <4>3. i \in 1 .. Len(requests') /\ requests'[i] = requests[i]  BY <1>6, <2>0
      <4> QED  BY <4>2, <4>3
    <3> QED  BY <1>1, <2>0, <3>1 DEF Session
  <2> QED  BY <2>2, <2>3, <2>4, <2>5, <2>6 DEF Queues
<1> QED  BY <1>1, <1>7, <1>8 DEF Wire

\* lock() without outputs: resetLockState takes the request back at once.
LEMMA WireLockTakenBack ==
  ASSUME Wire, Lock, outputs = <<>>
  PROVE  Wire'
<1> DEFINE a == [name |-> "lock", id |-> made + 1]
           b == [name |-> "destroy", id |-> made + 1]
<1>1. /\ ~IsActive /\ made + 1 <= MaxLocks
      /\ made' = made + 1 /\ lock' = lock /\ pending' = pending /\ locked' = FALSE
      /\ ended = "no" /\ ended' = ended /\ Allowed' = Allowed /\ hasty' = hasty \cup {made + 1}
      /\ requests' = requests \o <<a, b>> /\ happened' = happened
      /\ objects' = objects /\ session' = session /\ error' = error
  BY DEF Lock, serverVars, Allowed
<1>2. WireTypes /\ lock = 0 /\ ~pending /\ ~locked  BY <1>1 DEF Wire, WireTypes, IsActive
<1>3. a \in Request /\ b \in Request  BY <1>1, <1>2, Typed DEF Request
<1>4. requests \in Seq(Request)  BY <1>2 DEF WireTypes
<1>5. a.name = "lock" /\ a.id = made + 1 /\ b.name = "destroy" /\ b.id = made + 1  OBVIOUS
<1> HIDE DEF a, b
<1>6. /\ requests' \in Seq(Request) /\ Len(requests') = Len(requests) + 2
      /\ requests'[Len(requests) + 1] = a /\ requests'[Len(requests) + 2] = b
      /\ \A i \in 1 .. Len(requests) : requests'[i] = requests[i]
      /\ \A i \in 1 .. Len(requests) + 2 :
           i \in 1 .. Len(requests) \/ i = Len(requests) + 1 \/ i = Len(requests) + 2
  <2>1. <<a, b>> \in Seq(Request) /\ Len(<<a, b>>) = 2 /\ <<a, b>>[1] = a /\ <<a, b>>[2] = b
    BY <1>3
  <2> DEFINE t == <<a, b>>
  <2> HIDE DEF t
  <2>2. t \in Seq(Request) /\ Len(t) = 2 /\ t[1] = a /\ t[2] = b /\ requests' = requests \o t
    BY <1>1, <2>1 DEF t
  <2>3. /\ requests' \in Seq(Request) /\ Len(requests') = Len(requests) + Len(t)
        /\ \A i \in 1 .. Len(requests) + Len(t) :
             requests'[i] = IF i <= Len(requests) THEN requests[i] ELSE t[i - Len(requests)]
    BY <1>4, <2>2, ConcatProperties
  <2>4. Len(requests) \in Nat  BY <1>4
  <2> QED  BY <2>2, <2>3, <2>4
<1>7. WireTypes'
  <2>1. made + 1 \in 0 .. MaxLocks /\ 0 \in {0, made + 1}  BY <1>1, <1>2, Typed
  <2>2. /\ happened \in Seq(Event) /\ objects \in Seq(States) /\ ended \in Ends
        /\ session \in 0 .. Len(objects) /\ error \in 0 .. Len(objects) /\ pending \in BOOLEAN
    BY <1>2, Zenon DEF WireTypes
  <2>3. ~(pending' /\ locked') /\ (lock' # 0 <=> pending' \/ locked')  BY <1>1, <1>2
  <2>4. lock' \in {0, made'}  BY <1>1, <1>2
  <2>5. locked' \in BOOLEAN  BY <1>1
  <2> QED  BY <1>1, <1>6, <2>1, <2>2, <2>3, <2>4, <2>5, Zenon DEF WireTypes, IsActive
<1>8. ASSUME error = 0 PROVE Queues'
  <2>0. /\ LockRequests /\ DestroyRequests /\ Events /\ OwnLock /\ Session
        /\ Len(requests) \in Nat /\ made \in Nat /\ Len(objects) \in Nat /\ Len(objects) <= made
    BY <1>2, <1>8, Typed DEF Wire, Queues, LockRequests
  <2>1. \A i \in 1 .. Len(requests) : requests[i].id <= made /\ requests[i].id \in Nat \ {0}
    BY <1>2, <2>0, NewestLock, Typed
  <2>2. /\ Len(requests) + 1 \in 1 .. Len(requests') /\ Len(requests) + 2 \in 1 .. Len(requests')
        /\ \A i \in 1 .. Len(requests) : i \in 1 .. Len(requests')
    BY <1>6, <2>0
  <2>8. \A i \in 1 .. Len(requests') :
          \/ i \in 1 .. Len(requests) /\ requests'[i] = requests[i]
          \/ i = Len(requests) + 1 /\ requests'[i].name = "lock" /\ requests'[i].id = made + 1
          \/ i = Len(requests) + 2 /\ requests'[i].name = "destroy" /\ requests'[i].id = made + 1
    BY <1>5, <1>6, <2>0
  <2>3. LockRequests'
    <3>1. Len(objects) <= made + 1  BY <2>0
    <3>2. \A i \in 1 .. Len(requests') :
            requests'[i].name = "lock" => requests'[i].id \in Len(objects) + 1 .. made + 1
      BY <2>8, <2>0 DEF LockRequests
    <3>3. \A k \in Len(objects) + 1 .. made + 1 :
            \E i \in 1 .. Len(requests') : requests'[i].name = "lock" /\ requests'[i].id = k
      <4> TAKE k \in Len(objects) + 1 .. made + 1
      <4>1. CASE k = made + 1  BY <1>5, <1>6, <2>2, <4>1
      <4>2. CASE k # made + 1
        <5>1. k \in Len(objects) + 1 .. made  BY <2>0, <4>2
        <5>2. PICK i \in 1 .. Len(requests) : requests[i].name = "lock" /\ requests[i].id = k
          BY <2>0, <5>1 DEF LockRequests
        <5> QED  BY <1>6, <2>2, <5>2
      <4> QED  BY <4>1, <4>2
    <3>4. \A i, j \in 1 .. Len(requests') :
            requests'[i].name = "lock" /\ requests'[j].name = "lock" /\ i < j
              => requests'[i].id < requests'[j].id
      <4> SUFFICES ASSUME NEW i \in 1 .. Len(requests'), NEW j \in 1 .. Len(requests'),
                          requests'[i].name = "lock", requests'[j].name = "lock", i < j
                   PROVE  requests'[i].id < requests'[j].id
        OBVIOUS
      <4>1. i \in 1 .. Len(requests) /\ requests'[i] = requests[i]  BY <2>8, <2>0
      <4>2. CASE j \in 1 .. Len(requests) /\ requests'[j] = requests[j]
        BY <2>0, <4>1, <4>2 DEF LockRequests
      <4>3. CASE requests'[j].id = made + 1  BY <2>0, <2>1, <4>1, <4>3
      <4> QED  BY <2>8, <4>2, <4>3
    <3> QED  BY <1>1, <3>1, <3>2, <3>3, <3>4 DEF LockRequests
  <2>4. DestroyRequests'
    <3>1. ASSUME NEW i \in 1 .. Len(requests), requests[i].name # "lock" PROVE Rightful(i)'
      <4>1. Rightful(i) /\ requests'[i] = requests[i]  BY <1>6, <2>0, <3>1 DEF DestroyRequests
      <4>2. requests[i].id # lock' /\ made <= made' /\ made' \in Nat  BY <1>1, <1>2, <2>0, <2>1
      <4>3. \A j \in 1 .. i - 1 : requests'[j] = requests[j]  BY <1>6, <2>0
      <4>4. hasty \subseteq hasty'  BY <1>1
      <4> QED  BY <1>1, <2>0, <2>1, <4>1, <4>2, <4>3, <4>4, StaysRightful
    <3>2. ASSUME NEW n \in Nat, n = Len(requests) + 2 PROVE Rightful(n)'
      <4>1. b.id <= made' /\ b.id # lock' /\ b.id \in hasty'  BY <1>1, <1>2, <1>5, <2>0
      <4>2. Len(requests) + 1 \in 1 .. n - 1  BY <2>0, <3>2
      <4>3. requests'[n] = b  BY <1>6, <3>2
      <4> QED  BY <1>5, <1>6, <4>1, <4>2, <4>3 DEF Rightful
    <3>3. \A i \in 1 .. Len(requests') : requests'[i].name # "lock" => Rightful(i)'
      <4> SUFFICES ASSUME NEW i \in 1 .. Len(requests'), requests'[i].name # "lock" PROVE Rightful(i)'
        OBVIOUS
      <4>1. CASE i \in 1 .. Len(requests)  BY <1>6, <3>1, <4>1
      <4>2. CASE i = Len(requests) + 2  BY <3>2, <4>2
      <4> QED  BY <2>8, <4>1, <4>2
    <3>4. \A i, j \in 1 .. Len(requests') :
            requests'[i].name # "lock" /\ requests'[j].name # "lock" /\ requests'[i].id = requests'[j].id
              => i = j
      <4> SUFFICES ASSUME NEW i \in 1 .. Len(requests'), NEW j \in 1 .. Len(requests'),
                          requests'[i].name # "lock", requests'[j].name # "lock",
                          requests'[i].id = requests'[j].id
                   PROVE  i = j
        OBVIOUS
      <4>0. made + 1 \in Nat /\ \A k \in 1 .. Len(requests) : requests[k].id # made + 1
        BY <2>0, <2>1
      <4>1. CASE i \in 1 .. Len(requests) /\ requests'[i] = requests[i]
        <5>1. j \in 1 .. Len(requests) /\ requests'[j] = requests[j]  BY <2>8, <4>0, <4>1
        <5> QED  BY <2>0, <4>1, <5>1 DEF DestroyRequests
      <4>2. CASE i = Len(requests) + 2 /\ requests'[i].id = made + 1
        <5>1. j = Len(requests) + 2  BY <2>8, <4>0, <4>2
        <5> QED  BY <4>2, <5>1
      <4> QED  BY <2>8, <4>1, <4>2
    <3> QED  BY <3>3, <3>4 DEF DestroyRequests
  <2>5. Events'  BY <1>1, <2>0 DEF Events
  <2>6. OwnLock'  BY <1>1, <1>2 DEF OwnLock
  <2>7. Session'
    <3>1. \A k \in 1 .. made + 1 :
            \/ k <= Len(objects) /\ objects[k] = "gone"
            \/ \E i \in 1 .. Len(requests') : requests'[i].id = k /\ requests'[i].name # "lock"
      <4> SUFFICES ASSUME NEW k \in 1 .. made + 1, ~(k <= Len(objects) /\ objects[k] = "gone")
                   PROVE  \E i \in 1 .. Len(requests') : requests'[i].id = k /\ requests'[i].name # "lock"
        OBVIOUS
      <4>1. CASE k = made + 1  BY <1>5, <1>6, <2>2, <4>1
      <4>2. CASE k # made + 1
        <5>1. k \in 1 .. made /\ k # lock  BY <1>2, <2>0, <4>2
        <5>2. PICK i \in 1 .. Len(requests) : requests[i].id = k /\ requests[i].name # "lock"
          BY <1>1, <2>0, <5>1 DEF Session
        <5> QED  BY <1>6, <2>2, <5>2
      <4> QED  BY <4>1, <4>2
    <3> QED  BY <1>1, <2>0, <3>1 DEF Session
  <2> QED  BY <2>3, <2>4, <2>5, <2>6, <2>7 DEF Queues
<1>9. error' # 0 => error' \in hasty'  BY <1>1 DEF Wire
<1> QED  BY <1>1, <1>7, <1>8, <1>9 DEF Wire

\* The shell lets its object go, in the way its state asks for, or without an answer
\* when it is stopped.  An event may be read in the same step.
LEMMA WireLetGo ==
  ASSUME Wire, IsActive, Destroy,
         lock' = 0, pending' = FALSE, locked' = FALSE, made' = made,
         error = 0 /\ locked => lock \in Allowed' \/ objects[lock] = "over",
         error = 0 /\ pending => lock \in hasty' \/ (lock <= Len(objects) /\ objects[lock] = "denied"),
         hasty \subseteq hasty', \A id \in Nat : id \in Allowed => id \in Allowed',
         ended' \in Ends, ended # "no" => ended' # "no",
         happened' = happened \/ (happened # <<>> /\ happened' = Tail(happened)),
         UNCHANGED serverVars
  PROVE  Wire'
<1> DEFINE r == [name |-> IF locked THEN "unlock" ELSE "destroy", id |-> lock]
<1>1. /\ requests' = Append(requests, r)
      /\ objects' = objects /\ session' = session /\ error' = error
  BY DEF Destroy, Sends, serverVars
<1>2. WireTypes  BY DEF Wire
<1>3. /\ made \in 0 .. MaxLocks /\ lock \in {0, made} /\ lock # 0
      /\ pending \in BOOLEAN /\ locked \in BOOLEAN /\ (pending \/ locked)
      /\ requests \in Seq(Request) /\ happened \in Seq(Event) /\ objects \in Seq(States)
      /\ session \in 0 .. Len(objects) /\ error \in 0 .. Len(objects)
  BY <1>2, Zenon DEF WireTypes, IsActive
<1>4. r.name \in {"unlock", "destroy"} /\ (r.name = "unlock" <=> locked) /\ r.id = lock
  BY <1>3
<1>5. r \in Request /\ lock \in Nat \ {0} /\ lock = made  BY <1>2, <1>3, Typed DEF Request
<1> HIDE DEF r
<1>6. /\ requests' \in Seq(Request) /\ Len(requests') = Len(requests) + 1
      /\ requests'[Len(requests) + 1] = r
      /\ \A i \in 1 .. Len(requests) : requests'[i] = requests[i]
      /\ \A i \in 1 .. Len(requests) + 1 : i \in 1 .. Len(requests) \/ i = Len(requests) + 1
  BY <1>1, <1>3, <1>5, AppendFacts
<1>7. /\ happened' \in Seq(Event)
      /\ \A i \in 1 .. Len(happened') : \E j \in 1 .. Len(happened) : happened'[i] = happened[j]
  <2>1. CASE happened' = happened  BY <2>1, <1>3
  <2>2. CASE happened # <<>> /\ happened' = Tail(happened)
    BY <2>2, <1>3, TailFacts
  <2> QED  BY <2>1, <2>2
<1>8. WireTypes'
  <2>1. 0 \in {0, made}  OBVIOUS
  <2> QED  BY <1>1, <1>3, <1>6, <1>7, <2>1, Zenon DEF WireTypes, IsActive
<1>9. ASSUME error = 0 PROVE Queues'
  <2>0. /\ LockRequests /\ DestroyRequests /\ Events /\ OwnLock /\ Session
        /\ Len(requests) \in Nat /\ made \in Nat /\ Len(objects) \in Nat
    BY <1>2, <1>9, Typed DEF Wire, Queues
  <2>1. \A i \in 1 .. Len(requests) : requests[i].id \in Nat \ {0}  BY <1>2, Typed
  <2>2. Len(requests) + 1 \in 1 .. Len(requests') /\ \A i \in 1 .. Len(requests) : i \in 1 .. Len(requests')
    BY <1>6, <2>0
  <2>3. LockRequests'
    <3>1. \A i \in 1 .. Len(requests') :
            requests'[i].name = "lock" => i \in 1 .. Len(requests) /\ requests'[i] = requests[i]
      BY <1>4, <1>6
    <3>2. \A i \in 1 .. Len(requests) : i \in 1 .. Len(requests') /\ requests'[i] = requests[i]
      BY <1>6, <2>2
    <3> QED  BY <1>1, <2>0, <3>1, <3>2 DEF LockRequests
  <2>4. DestroyRequests'
    <3>1. ASSUME NEW i \in 1 .. Len(requests), requests[i].name # "lock"
          PROVE  Rightful(i)' /\ requests[i].id # lock
      <4>1. Rightful(i) /\ requests'[i] = requests[i]  BY <1>6, <2>0, <3>1 DEF DestroyRequests
      <4>2. requests[i].id # lock' /\ requests[i].id \in Nat  BY <2>1
      <4>3. \A j \in 1 .. i - 1 : requests'[j] = requests[j]  BY <1>6, <2>0
      <4>4. Rightful(i)'  BY <1>1, <2>0, <2>1, <4>1, <4>2, <4>3, StaysRightful
      <4>5. requests[i].id # lock  BY <4>1 DEF Rightful
      <4> QED  BY <4>4, <4>5
    <3>2. ASSUME NEW n \in Nat, n = Len(requests) + 1 PROVE Rightful(n)'
      <4>1. r.id <= made' /\ r.id # lock'  BY <1>3, <1>4, <1>5
      <4>2. r.name = "destroy" => r.id \in hasty' \/ (r.id <= Len(objects') /\ objects'[r.id] = "denied")
        BY <1>1, <1>3, <1>4, <1>9
      <4>3. r.name = "unlock" =>
              /\ r.id <= Len(objects')
              /\ objects'[r.id] = "over" \/ (objects'[r.id] = "locked" /\ r.id \in Allowed')
        BY <1>1, <1>4, <1>9, <2>0 DEF OwnLock
      <4>4. r.id > Len(objects') =>
              \E j \in 1 .. n - 1 : requests'[j].name = "lock" /\ requests'[j].id = r.id
        <5> SUFFICES ASSUME lock > Len(objects)
                     PROVE  \E j \in 1 .. Len(requests) : requests'[j].name = "lock" /\ requests'[j].id = lock
          BY <1>1, <1>4, <2>0, <3>2
        <5>1. lock \in Len(objects) + 1 .. made  BY <1>5, <2>0
        <5>2. PICK j \in 1 .. Len(requests) : requests[j].name = "lock" /\ requests[j].id = lock
          BY <2>0, <5>1 DEF LockRequests
        <5> QED  BY <1>6, <5>2
      <4>5. requests'[n] = r  BY <1>6, <3>2
      <4> QED  BY <4>1, <4>2, <4>3, <4>4, <4>5 DEF Rightful
    <3>3. \A i \in 1 .. Len(requests') : requests'[i].name # "lock" => Rightful(i)'
      <4> SUFFICES ASSUME NEW i \in 1 .. Len(requests'), requests'[i].name # "lock" PROVE Rightful(i)'
        OBVIOUS
      <4>1. CASE i \in 1 .. Len(requests)  BY <1>6, <3>1, <4>1
      <4>2. CASE i = Len(requests) + 1  BY <3>2, <4>2
      <4> QED  BY <1>6, <4>1, <4>2
    <3>4. \A i, j \in 1 .. Len(requests') :
            requests'[i].name # "lock" /\ requests'[j].name # "lock" /\ requests'[i].id = requests'[j].id
              => i = j
      BY <1>4, <1>6, <2>0, <3>1 DEF DestroyRequests
    <3> QED  BY <3>3, <3>4 DEF DestroyRequests
  <2>5. Events'  BY <1>1, <1>7, <2>0 DEF Events
  <2>6. OwnLock'  BY DEF OwnLock
  <2>7. Session'
    <3>1. \A k \in 1 .. made :
            \/ k <= Len(objects) /\ objects[k] = "gone"
            \/ k = lock \/ ended # "no"
            \/ \E i \in 1 .. Len(requests) : requests[i].id = k /\ requests[i].name # "lock"
      BY <2>0 DEF Session
    <3>2. \A k \in 1 .. made :
            \/ k <= Len(objects) /\ objects[k] = "gone"
            \/ ended' # "no"
            \/ \E i \in 1 .. Len(requests') : requests'[i].id = k /\ requests'[i].name # "lock"
      <4> TAKE k \in 1 .. made
      <4>1. CASE k = lock  BY <1>4, <1>6, <2>2, <4>1
      <4>2. ASSUME NEW i \in 1 .. Len(requests), requests[i].id = k, requests[i].name # "lock"
            PROVE  \E j \in 1 .. Len(requests') : requests'[j].id = k /\ requests'[j].name # "lock"
        BY <1>6, <2>2, <4>2
      <4> QED  BY <3>1, <4>1, <4>2
    <3> QED  BY <1>1, <2>0, <3>2 DEF Session
  <2> QED  BY <2>3, <2>4, <2>5, <2>6, <2>7 DEF Queues
<1>10. error' # 0 => error' \in hasty'  BY <1>1 DEF Wire
<1> QED  BY <1>1, <1>8, <1>9, <1>10 DEF Wire

\* The shell is stopped, and the request to let its object go is lost, or there is
\* none.
LEMMA WireLost ==
  ASSUME Wire, UNCHANGED <<requests, happened, serverVars, granted>>,
         lock' = 0, pending' = FALSE, locked' = FALSE, made' = made,
         hasty \subseteq hasty', ended = "no", ended' \in Ends, ended' # "no"
  PROVE  Wire'
<1>1. /\ requests' = requests /\ happened' = happened
      /\ objects' = objects /\ session' = session /\ error' = error
  BY DEF serverVars
<1>2. WireTypes  BY DEF Wire
<1>3. WireTypes'
  <2>1. 0 \in {0, made}  OBVIOUS
  <2> QED  BY <1>1, <1>2, <2>1, Zenon DEF WireTypes, IsActive
<1>4. ASSUME error = 0 PROVE Queues'
  <2>0. /\ LockRequests /\ DestroyRequests /\ Events /\ Session /\ made \in Nat /\ Len(objects) \in Nat
    BY <1>2, <1>4, Typed DEF Wire, Queues
  <2>1. LockRequests' /\ Events'  BY <1>1, <2>0 DEF LockRequests, Events
  <2>2. OwnLock'  BY DEF OwnLock
  <2>3. Session'  BY <1>1, <2>0 DEF Session
  <2>4. ASSUME NEW i \in 1 .. Len(requests), requests[i].name # "lock" PROVE Rightful(i)'
    <3>1. Rightful(i) /\ requests'[i] = requests[i]  BY <1>1, <2>0, <2>4 DEF DestroyRequests
    <3>2. requests[i].id \in Nat /\ requests[i].id # lock'  BY <1>2, Typed
    <3>3. requests[i].id \in Allowed => requests[i].id \in Allowed'  BY <3>2 DEF Allowed
    <3> QED  BY <1>1, <2>0, <3>1, <3>2, <3>3, StaysRightful
  <2>5. DestroyRequests'  BY <1>1, <2>0, <2>4 DEF DestroyRequests
  <2> QED  BY <2>1, <2>2, <2>3, <2>5 DEF Queues
<1>5. error' # 0 => error' \in hasty'  BY <1>1 DEF Wire
<1> QED  BY <1>1, <1>3, <1>4, <1>5 DEF Wire

LEMMA WireHandleLocked == Wire /\ HandleLocked => Wire'
<1> SUFFICES ASSUME Wire, HandleLocked PROVE Wire'
  OBVIOUS
<1>1. /\ happened # <<>> /\ Head(happened).name = "locked" /\ Head(happened).id = lock
      /\ pending' = FALSE /\ locked' = TRUE /\ happened' = Tail(happened)
      /\ made' = made /\ lock' = lock /\ requests' = requests
      /\ ended' = ended /\ Allowed' = Allowed /\ hasty' = hasty
      /\ objects' = objects /\ session' = session /\ error' = error
  BY DEF HandleLocked, IsNext, historyVars, serverVars, Allowed
<1>2. WireTypes /\ happened \in Seq(Event) /\ objects \in Seq(States)  BY DEF Wire, WireTypes
<1>3. /\ happened' \in Seq(Event) /\ Len(happened) \in Nat /\ Len(happened) >= 1
      /\ Len(happened') = Len(happened) - 1 /\ Head(happened) = happened[1] /\ happened[1] \in Event
      /\ \A i \in 1 .. Len(happened) - 1 : happened'[i] = happened[i + 1]
  BY <1>1, <1>2, TailFacts
<1>4. lock # 0  BY <1>1, <1>3, LockAssumption DEF Event
<1>5. WireTypes'  BY <1>1, <1>2, <1>3, <1>4, Zenon DEF WireTypes, IsActive
<1>6. ASSUME error = 0 PROVE Queues'
  <2>0. LockRequests /\ DestroyRequests /\ Events /\ OwnLock /\ Session  BY <1>6 DEF Wire, Queues
  <2>1. lock <= Len(objects) /\ objects[lock] \in {"locked", "over", "gone"}
    BY <1>1, <1>3, <2>0 DEF Events
  <2>2. objects[lock] # "gone"  BY <1>2, <1>4, <2>0, <2>1 DEF WireTypes, OwnLock, IsActive
  <2>3. LockRequests' /\ Session'  BY <1>1, <2>0 DEF LockRequests, Session
  <2>4. DestroyRequests'
    <3>1. \A i : Rightful(i) => Rightful(i)'  BY <1>1 DEF Rightful
    <3> QED  BY <1>1, <2>0, <3>1 DEF DestroyRequests
  <2>5. Events'
    <3>1. \A i \in 1 .. Len(happened') : i + 1 \in 1 .. Len(happened) /\ happened'[i] = happened[i + 1]
      BY <1>3
    <3> QED  BY <1>1, <2>0, <3>1 DEF Events
  <2>6. OwnLock'  BY <1>1, <2>1, <2>2 DEF OwnLock
  <2> QED  BY <2>3, <2>4, <2>5, <2>6 DEF Queues
<1> QED  BY <1>1, <1>5, <1>6 DEF Wire

LEMMA WireDropEvent == Wire /\ DropEvent => Wire'
<1> SUFFICES ASSUME Wire, DropEvent PROVE Wire'
  OBVIOUS
<1>1. /\ happened # <<>> /\ Head(happened).id # lock /\ happened' = Tail(happened)
      /\ made' = made /\ lock' = lock /\ pending' = pending /\ locked' = locked
      /\ ended' = ended /\ Allowed' = Allowed /\ hasty' = hasty
      /\ requests' = requests /\ objects' = objects /\ session' = session /\ error' = error
  BY DEF DropEvent, shellVars, lockVars, historyVars, serverVars, Allowed
<1>2. WireTypes /\ happened \in Seq(Event)  BY DEF Wire, WireTypes
<1>3. /\ happened' \in Seq(Event) /\ Len(happened) \in Nat /\ Len(happened) >= 1
      /\ Len(happened') = Len(happened) - 1 /\ Head(happened) = happened[1]
      /\ \A i \in 1 .. Len(happened) - 1 : happened'[i] = happened[i + 1]
  BY <1>1, <1>2, TailFacts
<1>4. \A i \in 1 .. Len(happened') : i + 1 \in 1 .. Len(happened) /\ happened'[i] = happened[i + 1]
  BY <1>3
<1>5. \A i \in 1 .. Len(happened) : happened[i].id = lock =>
        i - 1 \in 1 .. Len(happened') /\ happened'[i - 1] = happened[i]
  BY <1>1, <1>3
<1>6. WireTypes'  BY <1>1, <1>2, <1>3 DEF WireTypes, IsActive
<1>7. ASSUME error = 0 PROVE Queues'
  <2>0. LockRequests /\ DestroyRequests /\ Events /\ OwnLock /\ Session  BY <1>7 DEF Wire, Queues
  <2>1. LockRequests' /\ Session'  BY <1>1, <2>0 DEF LockRequests, Session
  <2>2. DestroyRequests'
    <3>1. \A i : Rightful(i) => Rightful(i)'  BY <1>1 DEF Rightful
    <3> QED  BY <1>1, <2>0, <3>1 DEF DestroyRequests
  <2>3. Events'  BY <1>1, <1>4, <2>0 DEF Events
  <2>4. OwnLock'
    <3>1. locked => lock <= Len(objects) /\ objects[lock] \in {"locked", "over"}
      BY <2>0 DEF OwnLock
    <3> SUFFICES ASSUME pending, lock <= Len(objects)
                 PROVE  /\ objects[lock] # "gone"
                        /\ objects[lock] = "locked" =>
                             \E i \in 1 .. Len(happened') : happened'[i].id = lock /\ happened'[i].name = "locked"
                        /\ \A i \in 1 .. Len(happened') :
                             happened'[i].id = lock /\ happened'[i].name = "finished" /\ objects[lock] # "denied" =>
                               \E j \in 1 .. i - 1 : happened'[j].id = lock /\ happened'[j].name = "locked"
      BY <1>1, <3>1, Zenon DEF OwnLock
    <3>2. /\ objects[lock] # "gone"
          /\ objects[lock] = "locked" =>
               \E i \in 1 .. Len(happened) : happened[i].id = lock /\ happened[i].name = "locked"
          /\ \A i \in 1 .. Len(happened) :
               happened[i].id = lock /\ happened[i].name = "finished" /\ objects[lock] # "denied" =>
                 \E j \in 1 .. i - 1 : happened[j].id = lock /\ happened[j].name = "locked"
      BY <2>0 DEF OwnLock
    <3>3. ASSUME objects[lock] = "locked"
          PROVE  \E i \in 1 .. Len(happened') : happened'[i].id = lock /\ happened'[i].name = "locked"
      BY <1>5, <3>2, <3>3
    <3>4. ASSUME NEW i \in 1 .. Len(happened'), happened'[i].id = lock, happened'[i].name = "finished",
                 objects[lock] # "denied"
          PROVE  \E j \in 1 .. i - 1 : happened'[j].id = lock /\ happened'[j].name = "locked"
      <4>1. i + 1 \in 1 .. Len(happened) /\ happened'[i] = happened[i + 1]  BY <1>4
      <4>2. PICK j \in 1 .. (i + 1) - 1 : happened[j].id = lock /\ happened[j].name = "locked"
        BY <3>2, <3>4, <4>1
      <4>3. j \in 1 .. Len(happened)  BY <4>1, <4>2, <1>3
      <4>4. j - 1 \in 1 .. Len(happened') /\ happened'[j - 1] = happened[j]  BY <1>5, <4>2, <4>3
      <4>5. j - 1 \in 1 .. i - 1  BY <4>2, <4>4
      <4> QED  BY <4>2, <4>4, <4>5
    <3> QED  BY <3>2, <3>3, <3>4
  <2> QED  BY <2>1, <2>2, <2>3, <2>4 DEF Queues
<1> QED  BY <1>1, <1>6, <1>7 DEF Wire

\* What the first request leaves behind, when no other destroys the same object and
\* the objects of the others keep their states.
LEMMA RestIsRightful ==
  ASSUME WireTypes, DestroyRequests, requests # <<>>, requests' = Tail(requests),
         made' = made, lock' = lock, hasty' = hasty, Allowed' = Allowed,
         Len(objects') \in Nat, Len(objects) <= Len(objects'),
         \A k \in 1 .. Len(objects) :
           objects'[k] = objects[k] \/ (Head(requests).name # "lock" /\ Head(requests).id = k),
         Head(requests).name = "lock" => Head(requests).id <= Len(objects')
  PROVE  DestroyRequests'
<1>0. requests \in Seq(Request)  BY DEF WireTypes
<1>1. /\ requests' \in Seq(Request) /\ Len(requests) \in Nat /\ Len(requests) >= 1
      /\ Len(requests') = Len(requests) - 1 /\ Head(requests) = requests[1]
      /\ \A i \in 1 .. Len(requests) - 1 : requests'[i] = requests[i + 1]
  BY <1>0, TailFacts
<1>2. \A i \in 1 .. Len(requests') : i + 1 \in 2 .. Len(requests) /\ requests'[i] = requests[i + 1]
  BY <1>1
<1>3. ASSUME NEW k \in 1 .. Len(requests'), requests'[k].name # "lock" PROVE Rightful(k)'
  <2> DEFINE i == k + 1
  <2>1. i \in 2 .. Len(requests) /\ requests'[k] = requests[i] /\ i \in Nat  BY <1>2
  <2>2. Rightful(i)  BY <1>1, <1>3, <2>1 DEF DestroyRequests
  <2>3. requests[i].id \in Nat \ {0} /\ Len(objects) \in Nat /\ made \in Nat  BY <1>1, <2>1, Typed
  <2>4. requests[i].id # lock  BY <2>2 DEF Rightful
  <2>5. ~(Head(requests).name # "lock" /\ Head(requests).id = requests[i].id)
    BY <1>1, <1>3, <2>1 DEF DestroyRequests
  <2>6. requests[i].id <= Len(objects) => objects'[requests[i].id] = objects[requests[i].id]
    BY <2>3, <2>5
  <2>7. requests[i].id > Len(objects') =>
          \A j \in 1 .. i - 1 : requests[j].name = "lock" /\ requests[j].id = requests[i].id =>
            \E l \in 1 .. k - 1 : requests'[l] = requests[j]
    <3> SUFFICES ASSUME requests[i].id > Len(objects'), NEW j \in 1 .. i - 1, requests[j].name = "lock",
                        requests[j].id = requests[i].id
                 PROVE  \E l \in 1 .. k - 1 : requests'[l] = requests[j]
      OBVIOUS
    <3>1. j # 1  BY <1>1, <2>3
    <3>2. j - 1 \in 1 .. k - 1 /\ j - 1 \in 1 .. Len(requests')  BY <1>1, <2>1, <3>1
    <3>3. requests'[j - 1] = requests[j]  BY <1>2, <3>2
    <3> QED  BY <3>2, <3>3
  <2>8. requests[i].id # lock' /\ made <= made' /\ made' \in Nat  BY <2>3, <2>4
  <2>9. hasty \subseteq hasty' /\ (requests[i].id \in Allowed => requests[i].id \in Allowed')  OBVIOUS
  <2> HIDE DEF i
  <2> QED  BY <2>1, <2>2, <2>3, <2>6, <2>7, <2>8, <2>9, StaysRightful
<1>4. \A i, j \in 1 .. Len(requests') :
        requests'[i].name # "lock" /\ requests'[j].name # "lock" /\ requests'[i].id = requests'[j].id
          => i = j
  <2> TAKE i, j \in 1 .. Len(requests')
  <2> HAVE requests'[i].name # "lock" /\ requests'[j].name # "lock" /\ requests'[i].id = requests'[j].id
  <2>1. i + 1 \in 1 .. Len(requests) /\ j + 1 \in 1 .. Len(requests)  BY <1>1, <1>2
  <2>2. i + 1 = j + 1  BY <1>2, <2>1 DEF DestroyRequests
  <2> QED  BY <1>1, <2>2
<1> QED  BY <1>3, <1>4 DEF DestroyRequests

\* The compositor reads a request for a lock.
LEMMA WireReadLock ==
  ASSUME Wire, error = 0, requests # <<>>, Head(requests).name = "lock", requests' = Tail(requests),
         objects' = Append(objects, "new"), UNCHANGED <<session, error>>,
         UNCHANGED <<shellVars, happened>>
  PROVE  Wire'
<1>1. /\ made' = made /\ lock' = lock /\ pending' = pending /\ locked' = locked
      /\ ended' = ended /\ Allowed' = Allowed /\ hasty' = hasty
      /\ happened' = happened /\ session' = session /\ error' = error
  BY DEF shellVars, lockVars, historyVars, Allowed
<1>2. /\ WireTypes /\ LockRequests /\ DestroyRequests /\ Events /\ OwnLock /\ Session
      /\ requests \in Seq(Request) /\ objects \in Seq(States) /\ happened \in Seq(Event)
      /\ session \in 0 .. Len(objects)
  BY DEF Wire, Queues, WireTypes
<1>3. /\ requests' \in Seq(Request) /\ Len(requests) \in Nat /\ Len(requests) >= 1
      /\ Len(requests') = Len(requests) - 1 /\ Head(requests) = requests[1]
      /\ \A i \in 1 .. Len(requests) - 1 : requests'[i] = requests[i + 1]
  BY <1>2, TailFacts
<1>4. "new" \in States  BY DEF States
<1>5. /\ objects' \in Seq(States) /\ Len(objects') = Len(objects) + 1
      /\ objects'[Len(objects) + 1] = "new"
      /\ \A k \in 1 .. Len(objects) : objects'[k] = objects[k]
      /\ \A k \in 1 .. Len(objects) + 1 : k \in 1 .. Len(objects) \/ k = Len(objects) + 1
      /\ Len(objects) \in Nat
  BY <1>2, <1>4, AppendFacts
<1>6. made \in Nat /\ lock \in Nat  BY <1>2, Typed
<1>7. \A i \in 1 .. Len(requests') : i + 1 \in 2 .. Len(requests) /\ requests'[i] = requests[i + 1]
  BY <1>3
<1>8. \A i \in 2 .. Len(requests) : i - 1 \in 1 .. Len(requests') /\ requests'[i - 1] = requests[i]
  BY <1>3
<1>9. requests[1].name = "lock" /\ requests[1].id = Len(objects) + 1 /\ Len(objects) + 1 <= made
  <2>1. requests[1].name = "lock" /\ 1 \in 1 .. Len(requests)  BY <1>3
  <2>2. requests[1].id \in Len(objects) + 1 .. made  BY <1>2, <2>1 DEF LockRequests
  <2>3. Len(objects) + 1 \in Len(objects) + 1 .. made  BY <1>5, <1>6, <2>2
  <2>4. PICK i \in 1 .. Len(requests) : requests[i].name = "lock" /\ requests[i].id = Len(objects) + 1
    BY <1>2, <2>3 DEF LockRequests
  <2>5. CASE i = 1  BY <2>1, <2>3, <2>4, <2>5
  <2>6. CASE i # 1
    <3>1. 1 < i  BY <1>3, <2>6
    <3>2. requests[1].id < requests[i].id  BY <1>2, <2>1, <2>4, <3>1 DEF LockRequests
    <3> QED  BY <1>5, <1>6, <2>2, <2>4, <3>2
  <2> QED  BY <2>5, <2>6
<1>10. WireTypes'
  <2>1. session' \in 0 .. Len(objects') /\ error' \in 0 .. Len(objects')  BY <1>1, <1>2, <1>5
  <2> QED  BY <1>1, <1>2, <1>3, <1>5, <2>1, Zenon DEF WireTypes, IsActive
<1>11. LockRequests'
  <2>1. \A i \in 1 .. Len(requests') :
          requests'[i].name = "lock" => requests'[i].id \in Len(objects') + 1 .. made
    <3> TAKE i \in 1 .. Len(requests')
    <3> HAVE requests'[i].name = "lock"
    <3>1. i + 1 \in 1 .. Len(requests) /\ 1 \in 1 .. Len(requests) /\ 1 < i + 1
      BY <1>3
    <3>2. requests[1].id < requests[i + 1].id  BY <1>2, <1>7, <1>9, <3>1 DEF LockRequests
    <3>3. requests[i + 1].id \in Len(objects) + 1 .. made  BY <1>2, <1>7, <3>1 DEF LockRequests
    <3> QED  BY <1>5, <1>6, <1>7, <1>9, <3>2, <3>3
  <2>2. \A k \in Len(objects') + 1 .. made :
          \E i \in 1 .. Len(requests') : requests'[i].name = "lock" /\ requests'[i].id = k
    <3> TAKE k \in Len(objects') + 1 .. made
    <3>1. k \in Len(objects) + 1 .. made /\ k # Len(objects) + 1  BY <1>5, <1>6
    <3>2. PICK i \in 1 .. Len(requests) : requests[i].name = "lock" /\ requests[i].id = k
      BY <1>2, <3>1 DEF LockRequests
    <3>3. i \in 2 .. Len(requests)  BY <1>3, <1>9, <3>1, <3>2
    <3> QED  BY <1>8, <3>2, <3>3
  <2>3. \A i, j \in 1 .. Len(requests') :
          requests'[i].name = "lock" /\ requests'[j].name = "lock" /\ i < j
            => requests'[i].id < requests'[j].id
    <3> SUFFICES ASSUME NEW i \in 1 .. Len(requests'), NEW j \in 1 .. Len(requests'),
                        requests'[i].name = "lock", requests'[j].name = "lock", i < j
                 PROVE  requests'[i].id < requests'[j].id
      OBVIOUS
    <3>1. i + 1 \in 1 .. Len(requests) /\ j + 1 \in 1 .. Len(requests) /\ i + 1 < j + 1  BY <1>3
    <3>2. requests[i + 1].id < requests[j + 1].id  BY <1>2, <1>7, <3>1 DEF LockRequests
    <3> QED  BY <1>7, <3>2
  <2> QED  BY <1>1, <1>5, <1>9, <2>1, <2>2, <2>3 DEF LockRequests
<1>12. DestroyRequests'
  <2>1. Head(requests).id <= Len(objects') /\ Len(objects') \in Nat /\ Len(objects) <= Len(objects')
    BY <1>3, <1>5, <1>9
  <2> QED  BY <1>1, <1>2, <1>5, <2>1, RestIsRightful
<1>13. Events'
  <2>1. \A i \in 1 .. Len(happened) : happened[i].id \in 1 .. Len(objects)
    BY <1>2, <1>5, Typed DEF Events
  <2> QED  BY <1>1, <1>2, <1>5, <2>1 DEF Events
<1>14. OwnLock'
  <2>1. CASE lock \in 1 .. Len(objects)
    <3>1. objects'[lock] = objects[lock] /\ lock <= Len(objects) /\ lock <= Len(objects')
      BY <1>5, <2>1
    <3>2. /\ OwnLock /\ locked' = locked /\ pending' = pending /\ lock' = lock
          /\ happened' = happened
      BY <1>1, <1>2
    <3>3. locked' => lock' <= Len(objects') /\ objects'[lock'] \in {"locked", "over"}
      BY <3>1, <3>2 DEF OwnLock
    <3>4. ASSUME pending
          PROVE  /\ objects[lock] # "gone"
                 /\ objects[lock] = "locked" =>
                      \E i \in 1 .. Len(happened) : happened[i].id = lock /\ happened[i].name = "locked"
                 /\ \A i \in 1 .. Len(happened) :
                      happened[i].id = lock /\ happened[i].name = "finished" /\ objects[lock] # "denied" =>
                        \E j \in 1 .. i - 1 : happened[j].id = lock /\ happened[j].name = "locked"
      BY <3>1, <3>2, <3>4, Zenon DEF OwnLock
    <3>5. pending' /\ lock' <= Len(objects') =>
            /\ objects'[lock'] # "gone"
            /\ objects'[lock'] = "locked" =>
                 \E i \in 1 .. Len(happened') : happened'[i].id = lock' /\ happened'[i].name = "locked"
            /\ \A i \in 1 .. Len(happened') :
                 happened'[i].id = lock' /\ happened'[i].name = "finished" /\ objects'[lock'] # "denied" =>
                   \E j \in 1 .. i - 1 : happened'[j].id = lock' /\ happened'[j].name = "locked"
      <4>1. objects'[lock'] = objects[lock] /\ (pending' => pending)  BY <3>1, <3>2
      <4>2. ASSUME pending' PROVE objects'[lock'] # "gone"  BY <3>4, <4>1, <4>2
      <4>3. ASSUME pending', objects'[lock'] = "locked"
            PROVE \E i \in 1 .. Len(happened') : happened'[i].id = lock' /\ happened'[i].name = "locked"
        BY <3>2, <3>4, <4>1, <4>3
      <4>4. ASSUME pending', NEW i \in 1 .. Len(happened'), happened'[i].id = lock',
                   happened'[i].name = "finished", objects'[lock'] # "denied"
            PROVE  \E j \in 1 .. i - 1 : happened'[j].id = lock' /\ happened'[j].name = "locked"
        <5>1. i \in 1 .. Len(happened) /\ happened[i].id = lock /\ happened[i].name = "finished"
          BY <3>2, <4>4
        <5>2. PICK j \in 1 .. i - 1 : happened[j].id = lock /\ happened[j].name = "locked"
          BY <3>4, <4>1, <4>4, <5>1
        <5> QED  BY <3>2, <5>2
      <4> QED  BY <4>2, <4>3, <4>4, Zenon
    <3> QED  BY <3>3, <3>5, Zenon DEF OwnLock
  <2>2. CASE lock = Len(objects) + 1
    <3>1. ~locked  BY <1>2, <1>5, <2>2 DEF OwnLock
    <3>2. \A i \in 1 .. Len(happened) : happened[i].id # lock
      BY <1>2, <1>5, <2>2, Typed DEF Events
    <3> QED  BY <1>1, <1>5, <2>2, <3>1, <3>2 DEF OwnLock
  <2>3. CASE lock = 0
    <3>1. ~pending /\ ~locked  BY <1>2, <2>3 DEF WireTypes, IsActive
    <3> QED  BY <1>1, <3>1 DEF OwnLock
  <2>4. CASE lock > Len(objects) + 1
    <3>1. ~locked  BY <1>2, <1>5, <1>6, <2>4 DEF OwnLock
    <3>2. ~(lock <= Len(objects'))  BY <1>5, <1>6, <2>4
    <3> QED  BY <1>1, <3>1, <3>2 DEF OwnLock
  <2> QED  BY <1>5, <1>6, <2>1, <2>2, <2>3, <2>4
<1>15. Session'
  <2>1. \A k \in 1 .. Len(objects') : objects'[k] = "locked" <=> session = k
    BY <1>2, <1>5 DEF Session
  <2>2. \A k \in 1 .. made :
          \/ k <= Len(objects') /\ objects'[k] = "gone"
          \/ k = lock \/ ended # "no"
          \/ \E i \in 1 .. Len(requests') : requests'[i].id = k /\ requests'[i].name # "lock"
    <3> TAKE k \in 1 .. made
    <3>1. CASE k <= Len(objects) /\ objects[k] = "gone"  BY <1>5, <3>1
    <3>2. ASSUME NEW i \in 1 .. Len(requests), requests[i].id = k, requests[i].name # "lock"
          PROVE  \E j \in 1 .. Len(requests') : requests'[j].id = k /\ requests'[j].name # "lock"
      <4>1. i \in 2 .. Len(requests)  BY <1>3, <1>9, <3>2
      <4> QED  BY <1>8, <3>2, <4>1
    <3> QED  BY <1>2, <3>1, <3>2 DEF Session
  <2> QED  BY <1>1, <2>1, <2>2 DEF Session
<1> QED  BY <1>1, <1>10, <1>11, <1>12, <1>13, <1>14, <1>15 DEF Wire, Queues

\* The compositor reads a request that destroys an object: an error only if the shell
\* did not wait for the answer, and a session that is unlocked by it is one the shell
\* may unlock.
LEMMA WireReadDestroy ==
  ASSUME Wire, error = 0, requests # <<>>, requests' = Tail(requests),
         NEW id, id = Head(requests).id, Head(requests).name # "lock",
         objects' = [objects EXCEPT ![id] = "gone"],
         \/ /\ Head(requests).name = "destroy"
            /\ error' = IF objects[id] \in {"locked", "over"} THEN id ELSE 0
            /\ session' = session
         \/ /\ Head(requests).name = "unlock"
            /\ error' = IF objects[id] \in {"new", "denied"} THEN id ELSE 0
            /\ session' = IF session = id THEN 0 ELSE session,
         UNCHANGED <<shellVars, happened>>
  PROVE  Wire' /\ (session # 0 /\ session' = 0 => session \in Allowed)
<1>1. /\ made' = made /\ lock' = lock /\ pending' = pending /\ locked' = locked
      /\ ended' = ended /\ Allowed' = Allowed /\ hasty' = hasty
      /\ happened' = happened
  BY DEF shellVars, lockVars, historyVars, Allowed
<1>2. /\ WireTypes /\ LockRequests /\ DestroyRequests /\ Events /\ OwnLock /\ Session
      /\ requests \in Seq(Request) /\ objects \in Seq(States) /\ happened \in Seq(Event)
      /\ session \in 0 .. Len(objects)
  BY DEF Wire, Queues, WireTypes
<1>3. /\ requests' \in Seq(Request) /\ Len(requests) \in Nat /\ Len(requests) >= 1
      /\ Len(requests') = Len(requests) - 1 /\ Head(requests) = requests[1] /\ requests[1] \in Request
      /\ \A i \in 1 .. Len(requests) - 1 : requests'[i] = requests[i + 1]
  BY <1>2, TailFacts
<1>4. \A i \in 1 .. Len(requests') : i + 1 \in 1 .. Len(requests) /\ requests'[i] = requests[i + 1]
  BY <1>3
<1>5. Len(objects) \in Nat /\ made \in Nat /\ lock \in Nat  BY <1>2, Typed
<1>6. Rightful(1) /\ requests[1].id = id  BY <1>2, <1>3 DEF DestroyRequests
<1>7. id \in 1 .. Len(objects) /\ id # lock
  <2>1. id \in Nat \ {0}  BY <1>2, <1>3, <1>6, Typed
  <2>2. id <= Len(objects)
    <3>1. \A j \in 1 .. 1 - 1 : FALSE  OBVIOUS
    <3> QED  BY <1>5, <1>6, <2>1, <3>1 DEF Rightful
  <2>3. id # lock  BY <1>6 DEF Rightful
  <2> QED  BY <1>5, <2>1, <2>2, <2>3
<1>8. /\ Head(requests).name = "destroy" => id \in hasty \/ objects[id] = "denied"
      /\ Head(requests).name = "unlock" =>
           objects[id] = "over" \/ (objects[id] = "locked" /\ id \in Allowed)
  BY <1>3, <1>6 DEF Rightful
<1>9. "gone" \in States  BY DEF States
<1>10. /\ objects' \in Seq(States) /\ Len(objects') = Len(objects)
       /\ objects'[id] = "gone" /\ \A k \in 1 .. Len(objects) : k # id => objects'[k] = objects[k]
  BY <1>2, <1>7, <1>9
<1>11. /\ error' \in {0, id} /\ error' # 0 => error' \in hasty'
       /\ error' = 0 /\ objects[id] = "locked" => Head(requests).name = "unlock"
  <2>1. id # 0 /\ 0 # id  BY <1>7
  <2>2. CASE /\ Head(requests).name = "destroy"
             /\ error' = IF objects[id] \in {"locked", "over"} THEN id ELSE 0
    <3>1. objects[id] # "denied" => id \in hasty'  BY <1>1, <1>8, <2>2
    <3> QED  BY <2>1, <2>2, <3>1
  <2>3. CASE /\ Head(requests).name = "unlock"
             /\ error' = IF objects[id] \in {"new", "denied"} THEN id ELSE 0
    <3>1. error' = 0  BY <1>8, <2>3
    <3> QED  BY <2>3, <3>1
  <2> QED  BY <2>2, <2>3
<1>12. \A k \in 1 .. Len(objects) : objects[k] = "locked" <=> session = k
  BY <1>2 DEF Session
<1>13. WireTypes'
  <2>1. session' \in 0 .. Len(objects')  BY <1>2, <1>5, <1>10
  <2>2. /\ made \in 0 .. MaxLocks /\ lock \in {0, made} /\ pending \in BOOLEAN /\ locked \in BOOLEAN
        /\ ended \in Ends /\ ~(pending /\ locked) /\ (lock # 0 <=> (pending \/ locked))
    BY <1>2 DEF WireTypes, IsActive
  <2>3. error' \in 0 .. Len(objects')  BY <1>5, <1>7, <1>10, <1>11
  <2> QED  BY <1>1, <1>2, <1>3, <1>10, <2>1, <2>2, <2>3, Zenon DEF WireTypes, IsActive
<1>14. ASSUME error' = 0 PROVE Queues'
  <2>1. session' = IF session = id THEN 0 ELSE session  BY <1>7, <1>11, <1>12, <1>14
  <2>2. LockRequests'
    <3>1. \A i \in 1 .. Len(requests') :
            requests'[i].name = "lock" => requests'[i].id \in Len(objects) + 1 .. made
      BY <1>2, <1>4 DEF LockRequests
    <3>2. \A k \in Len(objects) + 1 .. made :
            \E i \in 1 .. Len(requests') : requests'[i].name = "lock" /\ requests'[i].id = k
      <4> TAKE k \in Len(objects) + 1 .. made
      <4>1. PICK i \in 1 .. Len(requests) : requests[i].name = "lock" /\ requests[i].id = k
        BY <1>2 DEF LockRequests
      <4>2. i - 1 \in 1 .. Len(requests') /\ requests'[i - 1] = requests[i]  BY <1>3, <4>1
      <4> QED  BY <4>1, <4>2
    <3>3. \A i, j \in 1 .. Len(requests') :
            requests'[i].name = "lock" /\ requests'[j].name = "lock" /\ i < j
              => requests'[i].id < requests'[j].id
      <4> SUFFICES ASSUME NEW i \in 1 .. Len(requests'), NEW j \in 1 .. Len(requests'),
                          requests'[i].name = "lock", requests'[j].name = "lock", i < j
                   PROVE  requests'[i].id < requests'[j].id
        OBVIOUS
      <4>1. i + 1 \in 1 .. Len(requests) /\ j + 1 \in 1 .. Len(requests) /\ i + 1 < j + 1  BY <1>3
      <4>2. requests[i + 1].id < requests[j + 1].id  BY <1>2, <1>4, <4>1 DEF LockRequests
      <4> QED  BY <1>4, <4>2
    <3>4. Len(objects) <= made  BY <1>2 DEF LockRequests
    <3> QED  BY <1>1, <1>10, <3>1, <3>2, <3>3, <3>4 DEF LockRequests
  <2>3. DestroyRequests'
    <3>1. \A k \in 1 .. Len(objects) :
            objects'[k] = objects[k] \/ (Head(requests).name # "lock" /\ Head(requests).id = k)
      BY <1>10
    <3> QED  BY <1>1, <1>2, <1>5, <1>10, <3>1, RestIsRightful
  <2>4. Events'
    <3>1. \A i \in 1 .. Len(happened) : happened[i].id \in 1 .. Len(objects)
      BY <1>2, <1>5, Typed DEF Events
    <3> QED  BY <1>1, <1>2, <1>10, <3>1 DEF Events
  <2>5. OwnLock'
    <3>1. lock # 0 /\ lock <= Len(objects) => objects'[lock] = objects[lock]
      BY <1>5, <1>7, <1>10
    <3>2. pending \/ locked => lock # 0  BY <1>2 DEF WireTypes, IsActive
    <3> QED  BY <1>1, <1>2, <1>10, <3>1, <3>2 DEF OwnLock
  <2>6. Session'
    <3>1. \A k \in 1 .. Len(objects') : objects'[k] = "locked" <=> session' = k
      BY <1>5, <1>7, <1>10, <1>12, <2>1
    <3>2. \A k \in 1 .. made :
            \/ k <= Len(objects') /\ objects'[k] = "gone"
            \/ k = lock \/ ended # "no"
            \/ \E i \in 1 .. Len(requests') : requests'[i].id = k /\ requests'[i].name # "lock"
      <4> TAKE k \in 1 .. made
      <4>1. CASE k = id  BY <1>7, <1>10, <4>1
      <4>2. CASE k # id
        <5>1. ASSUME NEW i \in 1 .. Len(requests), requests[i].id = k, requests[i].name # "lock"
              PROVE  \E j \in 1 .. Len(requests') : requests'[j].id = k /\ requests'[j].name # "lock"
          <6>1. i # 1  BY <1>6, <4>2, <5>1
          <6>2. i - 1 \in 1 .. Len(requests') /\ requests'[i - 1] = requests[i]  BY <1>3, <6>1
          <6> QED  BY <5>1, <6>2
        <5>2. k <= Len(objects) /\ objects[k] = "gone" => k <= Len(objects') /\ objects'[k] = "gone"
          BY <1>10, <4>2
        <5> QED  BY <1>2, <5>1, <5>2 DEF Session
      <4> QED  BY <4>1, <4>2
    <3> QED  BY <1>1, <3>1, <3>2 DEF Session
  <2> QED  BY <2>2, <2>3, <2>4, <2>5, <2>6 DEF Queues
<1>15. session # 0 /\ session' = 0 => session \in Allowed
  BY <1>7, <1>8, <1>12
<1> QED  BY <1>11, <1>13, <1>14, <1>15 DEF Wire

\* The compositor answers a lock, or gives one up, and tells the shell.
LEMMA WireAnswer ==
  ASSUME Wire, error = 0, NEW id \in 1 .. Len(objects), NEW now \in {"locked", "denied", "over"},
         objects[id] = IF now = "over" THEN "locked" ELSE "new",
         objects' = [objects EXCEPT ![id] = now],
         NEW name, name = IF now = "locked" THEN "locked" ELSE "finished",
         happened' = Append(happened, [name |-> name, id |-> id]),
         now = "locked" => session = 0,
         session' = IF now = "locked" THEN id ELSE IF now = "over" THEN 0 ELSE session,
         UNCHANGED <<shellVars, requests, error>>
  PROVE  Wire'
<1> DEFINE e == [name |-> name, id |-> id]
<1>1. /\ made' = made /\ lock' = lock /\ pending' = pending /\ locked' = locked
      /\ ended' = ended /\ Allowed' = Allowed /\ hasty' = hasty
      /\ requests' = requests /\ error' = error
  BY DEF shellVars, lockVars, historyVars, Allowed
<1>2. /\ WireTypes /\ LockRequests /\ DestroyRequests /\ Events /\ OwnLock /\ Session
      /\ requests \in Seq(Request) /\ objects \in Seq(States) /\ made \in 0 .. MaxLocks
      /\ happened \in Seq(Event) /\ lock \in {0, made} /\ MaxLocks \in Nat
      /\ session \in 0 .. Len(objects) /\ error \in 0 .. Len(objects) /\ ended \in Ends
      /\ pending \in BOOLEAN /\ locked \in BOOLEAN
      /\ ~(pending /\ locked) /\ (lock # 0 <=> (pending \/ locked))
  BY LockAssumption DEF Wire, Queues, WireTypes, IsActive
<1>3. Len(objects) \in Nat /\ id \in 1 .. MaxLocks
  <2>1. Len(objects) <= made  BY <1>2 DEF LockRequests
  <2> QED  BY <1>2, <2>1
<1>4. e \in Event /\ e.name = name /\ e.id = id  BY <1>3 DEF Event
<1> HIDE DEF e
<1>5. /\ happened' \in Seq(Event) /\ Len(happened') = Len(happened) + 1
      /\ happened'[Len(happened) + 1] = e
      /\ \A i \in 1 .. Len(happened) : happened'[i] = happened[i]
      /\ \A i \in 1 .. Len(happened) + 1 : i \in 1 .. Len(happened) \/ i = Len(happened) + 1
      /\ Len(happened) \in Nat
  BY <1>2, <1>4, AppendFacts DEF e
<1>6. now \in States  BY DEF States
<1>7. /\ objects' \in Seq(States) /\ Len(objects') = Len(objects)
      /\ objects'[id] = now /\ \A k \in 1 .. Len(objects) : k # id => objects'[k] = objects[k]
  BY <1>2, <1>6
<1>8. \A i \in 1 .. Len(happened) : happened[i].id \in 1 .. Len(objects)
  BY <1>2, <1>3, Typed DEF Events
<1>9. WireTypes'
  <2>1. session' \in 0 .. Len(objects') /\ error' \in 0 .. Len(objects')  BY <1>1, <1>2, <1>3, <1>7
  <2> QED  BY <1>1, <1>2, <1>5, <1>7, <2>1, Zenon DEF WireTypes, IsActive
<1>11. LockRequests'  BY <1>1, <1>2, <1>7 DEF LockRequests
<1>12. DestroyRequests'
  <2>1. ASSUME NEW i \in 1 .. Len(requests), requests[i].name # "lock" PROVE Rightful(i)'
    <3>1. Rightful(i) /\ requests'[i] = requests[i]  BY <1>1, <1>2, <2>1 DEF DestroyRequests
    <3>2. requests[i].id \in Nat \ {0} /\ made \in Nat  BY <1>2, Typed
    <3>3. requests[i].id # lock' /\ made <= made' /\ made' \in Nat  BY <1>1, <3>1, <3>2 DEF Rightful
    <3>4. requests[i].id <= Len(objects) =>
            \/ objects'[requests[i].id] = objects[requests[i].id]
            \/ objects[requests[i].id] = "new"
            \/ objects[requests[i].id] = "locked" /\ objects'[requests[i].id] = "over"
      <4>1. objects[id] = "new" \/ (objects[id] = "locked" /\ objects'[id] = "over")  BY <1>7
      <4> QED  BY <1>3, <1>7, <3>2, <4>1
    <3> QED  BY <1>1, <1>3, <1>7, <3>1, <3>2, <3>3, <3>4, StaysRightful
  <2> QED  BY <1>1, <1>2, <2>1 DEF DestroyRequests
<1>13. \A i \in 1 .. Len(happened) : happened[i].id = id =>
         happened[i].name # "finished" /\ (happened[i].name = "locked" => now = "over")
  BY <1>2 DEF Events
<1>14. Events'
  <2>1. \A i \in 1 .. Len(happened) :
          /\ happened[i].id <= Len(objects)
          /\ happened[i].name = "locked" => objects'[happened[i].id] \in {"locked", "over", "gone"}
          /\ happened[i].name = "finished" => objects'[happened[i].id] \in {"denied", "over", "gone"}
    BY <1>2, <1>7, <1>8, <1>13 DEF Events
  <2>2. /\ e.id <= Len(objects)
        /\ e.name = "locked" => objects'[e.id] \in {"locked", "over", "gone"}
        /\ e.name = "finished" => objects'[e.id] \in {"denied", "over", "gone"}
    BY <1>3, <1>4, <1>7
  <2> QED  BY <1>5, <1>7, <2>1, <2>2 DEF Events
<1>15. OwnLock'
  <2>1. locked => lock <= Len(objects) /\ objects'[lock] \in {"locked", "over"}
    BY <1>2, <1>3, <1>7 DEF OwnLock
  <2>2. ASSUME pending, lock <= Len(objects)
        PROVE  /\ objects'[lock] # "gone"
               /\ objects'[lock] = "locked" =>
                    \E i \in 1 .. Len(happened') : happened'[i].id = lock /\ happened'[i].name = "locked"
               /\ \A i \in 1 .. Len(happened') :
                    happened'[i].id = lock /\ happened'[i].name = "finished" /\ objects'[lock] # "denied" =>
                      \E j \in 1 .. i - 1 : happened'[j].id = lock /\ happened'[j].name = "locked"
    <3>1. /\ objects[lock] # "gone"
          /\ objects[lock] = "locked" =>
               \E i \in 1 .. Len(happened) : happened[i].id = lock /\ happened[i].name = "locked"
          /\ \A i \in 1 .. Len(happened) :
               happened[i].id = lock /\ happened[i].name = "finished" /\ objects[lock] # "denied" =>
                 \E j \in 1 .. i - 1 : happened[j].id = lock /\ happened[j].name = "locked"
      BY <1>2, <2>2 DEF OwnLock
    <3>2. lock \in 1 .. Len(objects)  BY <1>2, <1>3, <2>2
    <3>3. CASE lock = id
      <4>1. objects'[lock] = now  BY <3>3, <1>7
      <4>2. ASSUME now = "locked"
            PROVE \E i \in 1 .. Len(happened') : happened'[i].id = lock /\ happened'[i].name = "locked"
        <5>1. Len(happened) + 1 \in 1 .. Len(happened')  BY <1>5
        <5> QED  BY <1>4, <1>5, <3>3, <4>2, <5>1
      <4>3. ASSUME NEW i \in 1 .. Len(happened'), happened'[i].id = lock,
                   happened'[i].name = "finished", now # "denied"
            PROVE  \E j \in 1 .. i - 1 : happened'[j].id = lock /\ happened'[j].name = "locked"
        <5>1. i = Len(happened) + 1  BY <1>5, <1>13, <3>3, <4>3
        <5>2. now = "over"  BY <1>4, <1>5, <4>3, <5>1
        <5>3. PICK j \in 1 .. Len(happened) : happened[j].id = lock /\ happened[j].name = "locked"
          BY <3>1, <3>3, <5>2
        <5>4. j \in 1 .. i - 1 /\ happened'[j] = happened[j]  BY <1>5, <5>1
        <5> QED  BY <5>3, <5>4
      <4>4. now # "gone"  OBVIOUS
      <4> QED  BY <4>1, <4>2, <4>3, <4>4
    <3>4. CASE lock # id
      <4>1. objects'[lock] = objects[lock]  BY <3>2, <3>4, <1>7
      <4>2. ASSUME objects[lock] = "locked"
            PROVE \E i \in 1 .. Len(happened') : happened'[i].id = lock /\ happened'[i].name = "locked"
        <5>1. PICK i \in 1 .. Len(happened) : happened[i].id = lock /\ happened[i].name = "locked"
          BY <3>1, <4>2
        <5>2. i \in 1 .. Len(happened') /\ happened'[i] = happened[i]  BY <1>5
        <5> QED  BY <5>1, <5>2
      <4>3. ASSUME NEW i \in 1 .. Len(happened'), happened'[i].id = lock,
                   happened'[i].name = "finished", objects[lock] # "denied"
            PROVE  \E j \in 1 .. i - 1 : happened'[j].id = lock /\ happened'[j].name = "locked"
        <5>1. i \in 1 .. Len(happened) /\ happened'[i] = happened[i]  BY <1>4, <1>5, <3>4, <4>3
        <5>2. PICK j \in 1 .. i - 1 : happened[j].id = lock /\ happened[j].name = "locked"
          BY <3>1, <4>3, <5>1
        <5>3. j \in 1 .. Len(happened)  BY <1>5, <5>1
        <5>4. happened'[j] = happened[j]  BY <1>5, <5>3
        <5> QED  BY <5>2, <5>4
      <4> QED  BY <3>1, <4>1, <4>2, <4>3
    <3> QED  BY <3>3, <3>4
  <2>3. (lock <= Len(objects)) = (lock' <= Len(objects'))  BY <1>1, <1>7
  <2> QED  BY <1>1, <1>7, <2>1, <2>2, <2>3 DEF OwnLock
<1>16. Session'
  <2>1. \A k \in 1 .. Len(objects) : objects[k] = "locked" <=> session = k  BY <1>2 DEF Session
  <2>2. \A k \in 1 .. Len(objects') : objects'[k] = "locked" <=> session' = k
    BY <1>3, <1>7, <2>1
  <2>3. \A k \in 1 .. made :
          \/ k <= Len(objects) /\ objects'[k] = "gone"
          \/ k = lock \/ ended # "no"
          \/ \E i \in 1 .. Len(requests) : requests[i].id = k /\ requests[i].name # "lock"
    <3>1. \A k \in 1 .. made :
            \/ k <= Len(objects) /\ objects[k] = "gone"
            \/ k = lock \/ ended # "no"
            \/ \E i \in 1 .. Len(requests) : requests[i].id = k /\ requests[i].name # "lock"
      BY <1>2 DEF Session
    <3>2. \A k \in 1 .. made : k <= Len(objects) /\ objects[k] = "gone" => objects'[k] = "gone"
      BY <1>2, <1>3, <1>7
    <3> QED  BY <3>1, <3>2
  <2> QED  BY <1>1, <1>7, <2>2, <2>3 DEF Session
<1> QED  BY <1>1, <1>9, <1>11, <1>12, <1>14, <1>15, <1>16 DEF Wire, Queues

LEMMA WireRead ==
  Wire /\ ReadRequest => Wire' /\ (session # 0 /\ session' = 0 => session \in Allowed)
<1> SUFFICES ASSUME Wire, ReadRequest
             PROVE  Wire' /\ (session # 0 /\ session' = 0 => session \in Allowed)
  OBVIOUS
<1>1. /\ requests # <<>> /\ error = 0 /\ requests' = Tail(requests)
      /\ UNCHANGED <<shellVars, happened>>
  BY DEF ReadRequest
<1>2. CASE Head(requests).name = "lock"
  <2>1. objects' = Append(objects, "new") /\ UNCHANGED <<session, error>>
    BY <1>2 DEF ReadRequest
  <2> QED  BY <1>1, <1>2, <2>1, WireReadLock
<1>3. CASE Head(requests).name # "lock"
  <2> DEFINE id == Head(requests).id
  <2>1. /\ objects' = [objects EXCEPT ![id] = "gone"]
        /\ \/ /\ Head(requests).name = "destroy"
              /\ error' = IF objects[id] \in {"locked", "over"} THEN id ELSE 0
              /\ session' = session
           \/ /\ Head(requests).name = "unlock"
              /\ error' = IF objects[id] \in {"new", "denied"} THEN id ELSE 0
              /\ session' = IF session = id THEN 0 ELSE session
    BY <1>3, Zenon DEF ReadRequest
  <2> HIDE DEF id
  <2> QED  BY <1>1, <1>3, <2>1, WireReadDestroy DEF id
<1> QED  BY <1>2, <1>3

LEMMA WireAnswers == Wire /\ (Answer \/ \E id \in DOMAIN objects : GiveUp(id)) => Wire'
<1> SUFFICES ASSUME Wire, Answer \/ \E id \in DOMAIN objects : GiveUp(id) PROVE Wire'
  OBVIOUS
<1>1. objects \in Seq(States)  BY DEF Wire, WireTypes
<1>2. DOMAIN objects = 1 .. Len(objects)  BY <1>1
<1>3. ASSUME NEW id \in DOMAIN objects, Grant(id) PROVE Wire'
  <2>1. id \in 1 .. Len(objects)  BY <1>2
  <2> QED  BY <1>3, <2>1, WireAnswer DEF Grant, Tells
<1>4. ASSUME NEW id \in DOMAIN objects, Deny(id) PROVE Wire'
  <2>1. id \in 1 .. Len(objects)  BY <1>2
  <2> QED  BY <1>4, <2>1, WireAnswer DEF Deny, Tells
<1>5. ASSUME NEW id \in DOMAIN objects, GiveUp(id) PROVE Wire'
  <2>1. id \in 1 .. Len(objects)  BY <1>2
  <2> QED  BY <1>5, <2>1, WireAnswer DEF GiveUp, Tells
<1> QED  BY <1>3, <1>4, <1>5 DEF Answer

-----------------------------------------------------------------------------
(* What the user sees. *)

LEMMA TextFacts ==
  /\ <<>> \in Texts /\ Texts \subseteq Seq(Keys)
  /\ \A text \in Texts, key \in Keys : Len(text) < MaxText => Append(text, key) \in Texts
<1>1. MaxText \in Nat  BY LockAssumption
<1>2. <<>> \in [1 .. 0 -> Keys] /\ 0 \in 0 .. MaxText  BY <1>1
<1>3. <<>> \in Texts  BY <1>2, Zenon DEF Texts
<1>4. ASSUME NEW n \in 0 .. MaxText, NEW text \in [1 .. n -> Keys]
      PROVE  text \in Seq(Keys) /\ Len(text) = n
  BY <1>1, <1>4
<1>5. Texts \subseteq Seq(Keys)  BY <1>4 DEF Texts
<1>6. ASSUME NEW text \in Texts, NEW key \in Keys, Len(text) < MaxText
      PROVE  Append(text, key) \in Texts
  <2>1. PICK n \in 0 .. MaxText : text \in [1 .. n -> Keys]  BY DEF Texts
  <2>2. n + 1 \in 0 .. MaxText  BY <1>1, <1>4, <1>6, <2>1
  <2>3. Append(text, key) \in [1 .. n + 1 -> Keys]
    <3>1. text \in Seq(Keys) /\ Len(text) = n  BY <1>4, <2>1
    <3> DEFINE longer == Append(text, key)
    <3>2. longer \in Seq(Keys) /\ Len(longer) = n + 1  BY <3>1, AppendFacts
    <3> HIDE DEF longer
    <3>3. longer \in [1 .. n + 1 -> Keys]  BY <3>2, LenProperties
    <3> QED  BY <3>3 DEF longer
  <2> QED  BY <2>2, <2>3, Zenon DEF Texts
<1> QED  BY <1>3, <1>5, <1>6

LEMMA ScreenInit == Init => Screen
<1> SUFFICES ASSUME Init PROVE Screen
  OBVIOUS
<1>1. PICK o \in Outputs : outputs = <<o>>  BY DEF Init
<1>2. /\ pending = FALSE /\ locked = FALSE /\ instances = <<>> /\ password = <<>> /\ status = ""
      /\ typed = <<>> /\ lagged = FALSE /\ pointer = None
  BY DEF Init
<1>3. outputs \in Seq(Outputs) /\ IsInjective(outputs)
  BY <1>1 DEF IsInjective
<1>4. /\ password \in Texts /\ typed \in Seq(Keys) /\ status \in Statuses
      /\ instances \in Seq(Surface)
  <2>1. "" \in Statuses  BY DEF Statuses
  <2>2. <<>> \in Seq(Keys) /\ <<>> \in Seq(Surface)  OBVIOUS
  <2> QED  BY <1>2, <2>1, <2>2, TextFacts
<1>5. Covered /\ Agree
  <2>0. instances = <<>>  BY <1>2
  <2>1. \A i \in 1 .. Len(instances) : FALSE  BY <2>0
  <2>2. ~IsActive  BY <1>2 DEF IsActive
  <2> QED  BY <1>2, <2>1, <2>2, Zenon DEF Covered, Agree
<1> QED  BY <1>2, <1>3, <1>4, <1>5, Zenon DEF Screen

LEMMA ScreenKept == Screen /\ UNCHANGED screenVars => Screen'
<1> SUFFICES ASSUME Screen, UNCHANGED screenVars PROVE Screen'
  OBVIOUS
<1>1. /\ outputs' = outputs /\ pending' = pending /\ locked' = locked /\ instances' = instances
      /\ password' = password /\ status' = status /\ typed' = typed /\ lagged' = lagged
      /\ pointer' = pointer
  BY DEF screenVars, promptVars
<1> QED  BY <1>1 DEF Screen, Covered, Agree, IsActive

\* As long as the surfaces stay on their outputs, the outputs stay covered.
LEMMA CoveredKept ==
  ASSUME Covered, instances \in Seq(Surface), instances' \in Seq(Surface),
         Len(instances') = Len(instances), outputs' = outputs,
         \A i \in 1 .. Len(instances) : instances'[i].output = instances[i].output,
         IsActive' <=> IsActive
  PROVE  Covered'
<1>1. /\ DOMAIN instances = 1 .. Len(instances) /\ DOMAIN instances' = 1 .. Len(instances)
      /\ Len(instances) \in Nat
  OBVIOUS
<1>2. {r.output : r \in Range(instances')} = {r.output : r \in Range(instances)}
  BY <1>1 DEF Range
<1>3. instances = <<>> => instances' = <<>>  OBVIOUS
<1>4. \A i, j \in 1 .. Len(instances') : instances'[i].output = instances'[j].output => i = j
  BY DEF Covered
<1>5. IsActive' => {r.output : r \in Range(instances')} = Range(outputs')
  BY <1>2 DEF Covered
<1>6. ~IsActive' => instances' = <<>>  BY <1>3 DEF Covered
<1> QED  BY <1>4, <1>5, <1>6, Zenon DEF Covered

LEMMA PromptedFacts ==
  ASSUME instances \in Seq(Surface), NEW text \in Texts, NEW note \in Statuses
  PROVE  /\ Prompted(text, note) \in Seq(Surface)
         /\ Len(Prompted(text, note)) = Len(instances)
         /\ \A i \in 1 .. Len(instances) :
              /\ Prompted(text, note)[i].output = instances[i].output
              /\ Prompted(text, note)[i].locked = instances[i].locked
              /\ Prompted(text, note)[i].password = text
              /\ Prompted(text, note)[i].status = note
              /\ Prompted(text, note)[i].field = instances[i].field
<1>1. DOMAIN instances = 1 .. Len(instances) /\ Len(instances) \in Nat  OBVIOUS
<1>2. ASSUME NEW i \in 1 .. Len(instances)
      PROVE  /\ [instances[i] EXCEPT !.password = text, !.status = note] \in Surface
             /\ [instances[i] EXCEPT !.password = text, !.status = note].output = instances[i].output
             /\ [instances[i] EXCEPT !.password = text, !.status = note].locked = instances[i].locked
             /\ [instances[i] EXCEPT !.password = text, !.status = note].password = text
             /\ [instances[i] EXCEPT !.password = text, !.status = note].status = note
             /\ [instances[i] EXCEPT !.password = text, !.status = note].field = instances[i].field
  <2>1. instances[i] \in Surface  OBVIOUS
  <2> QED  BY <2>1 DEF Surface
<1>3. \A i \in 1 .. Len(instances) :
        Prompted(text, note)[i] = [instances[i] EXCEPT !.password = text, !.status = note]
  BY <1>1 DEF Prompted
<1>4. Prompted(text, note) \in [1 .. Len(instances) -> Surface]  BY <1>1, <1>2 DEF Prompted
<1>5. Prompted(text, note) \in Seq(Surface) /\ Len(Prompted(text, note)) = Len(instances)
  BY <1>1, <1>4
<1> QED  BY <1>2, <1>3, <1>5

\* What the prompt needs for the rest to follow.
LEMMA ScreenPrompt ==
  ASSUME Screen, outputs' = outputs, pointer' = pointer, IsActive' <=> IsActive,
         instances' \in Seq(Surface), Len(instances') = Len(instances),
         \A i \in 1 .. Len(instances) :
           /\ instances'[i].output = instances[i].output
           /\ instances'[i].locked = locked'
           /\ instances'[i].password = password'
           /\ instances'[i].status = status',
         password' \in Texts, typed' \in Seq(Keys), status' \in Statuses, lagged' \in BOOLEAN,
         pending' => password' = <<>>, ~lagged' => password' = typed'
  PROVE  Screen'
<1>1. Covered'  BY CoveredKept DEF Screen
<1>2. Agree'  BY DEF Agree
<1>3. /\ outputs' \in Seq(Outputs) /\ IsInjective(outputs')
      /\ pointer' \in Outputs \cup {None}
  BY DEF Screen
<1> QED  BY <1>1, <1>2, <1>3, Zenon DEF Screen

\* lock() with outputs.
LEMMA ScreenLock ==
  ASSUME Screen, Lock, outputs # <<>>
  PROVE  Screen'
<1> DEFINE Made(output) == [output |-> output, locked |-> FALSE, password |-> <<>>,
                            status |-> "waiting", field |-> <<>>]
<1>1. /\ outputs' = outputs /\ pointer' = pointer
      /\ password' = <<>> /\ typed' = <<>> /\ lagged' = FALSE /\ status' = "waiting"
      /\ locked' = FALSE /\ pending' = TRUE
      /\ instances' = [i \in DOMAIN outputs |-> Made(outputs[i])]
  BY DEF Screen, Lock, Cleared
<1>2. /\ outputs \in Seq(Outputs) /\ IsInjective(outputs)
      /\ pointer \in Outputs \cup {None}
  BY DEF Screen
<1>3. "waiting" \in Statuses /\ <<>> \in Seq(Keys)  BY DEF Statuses
<1>4. \A o \in Outputs : Made(o) \in Surface /\ Made(o).output = o /\ Made(o).locked = FALSE
                         /\ Made(o).password = <<>> /\ Made(o).status = "waiting"
  BY <1>3, TextFacts DEF Surface
<1> HIDE DEF Made
<1>5. /\ DOMAIN outputs = 1 .. Len(outputs) /\ Len(outputs) \in Nat
      /\ \A i \in 1 .. Len(outputs) : outputs[i] \in Outputs
  BY <1>2
<1>6. instances' \in [1 .. Len(outputs) -> Surface]  BY <1>1, <1>4, <1>5
<1>7. /\ instances' \in Seq(Surface) /\ Len(instances') = Len(outputs)
      /\ \A i \in 1 .. Len(outputs) : instances'[i] = Made(outputs[i])
  BY <1>1, <1>5, <1>6
<1>8. Agree'  BY <1>1, <1>4, <1>5, <1>7 DEF Agree
<1>9. Covered'
  <2>1. {r.output : r \in Range(instances')} = Range(outputs)
    BY <1>4, <1>5, <1>6, <1>7 DEF Range
  <2>2. \A i, j \in 1 .. Len(instances') : instances'[i].output = instances'[j].output => i = j
    BY <1>2, <1>4, <1>5, <1>7 DEF IsInjective
  <2>3. IsActive'  BY <1>1 DEF IsActive
  <2> QED  BY <1>1, <2>1, <2>2, <2>3 DEF Covered
<1> QED  BY <1>1, <1>2, <1>3, <1>7, <1>8, <1>9, TextFacts, Zenon DEF Screen

\* lock() without outputs leaves an inactive lock screen.
LEMMA ScreenNoLock ==
  ASSUME Screen, Lock, outputs = <<>>
  PROVE  Screen'
<1>1. /\ outputs' = outputs /\ pointer' = pointer /\ instances' = instances
      /\ password' = <<>> /\ typed' = <<>> /\ lagged' = FALSE /\ status' = "waiting"
      /\ ~IsActive /\ locked' = FALSE /\ pending' = pending
  BY DEF Lock, Cleared
<1>2. instances = <<>> /\ ~IsActive'  BY <1>1 DEF Screen, Covered, IsActive
<1>3. \A i \in 1 .. Len(instances') : FALSE  BY <1>1, <1>2
<1>4. Covered' /\ Agree'  BY <1>1, <1>2, <1>3, Zenon DEF Covered, Agree
<1>5. "waiting" \in Statuses /\ <<>> \in Seq(Keys)  BY DEF Statuses
<1>6. /\ outputs' \in Seq(Outputs) /\ IsInjective(outputs')
      /\ instances' \in Seq(Surface) /\ pointer' \in Outputs \cup {None}
  BY <1>1 DEF Screen
<1> QED  BY <1>1, <1>4, <1>5, <1>6, TextFacts, Zenon DEF Screen

LEMMA ScreenLetGo == Screen /\ outputs' = outputs /\ LetGo => Screen'
<1> SUFFICES ASSUME Screen, outputs' = outputs, LetGo PROVE Screen'
  OBVIOUS
<1>1. /\ pending' = FALSE /\ locked' = FALSE
      /\ password' = <<>> /\ typed' = <<>> /\ lagged' = FALSE /\ status' = ""
      /\ instances' = <<>> /\ pointer' = None
  BY DEF LetGo, Cleared
<1>2. outputs' \in Seq(Outputs) /\ IsInjective(outputs')  BY DEF Screen
<1>3. "" \in Statuses /\ <<>> \in Seq(Keys) /\ <<>> \in Seq(Surface)  BY DEF Statuses
<1>4. \A i \in 1 .. Len(instances') : FALSE
  <2>1. instances' = <<>>  BY <1>1
  <2> QED  BY <2>1
<1>5. ~IsActive'  BY <1>1 DEF IsActive
<1>6. Covered' /\ Agree'  BY <1>1, <1>4, <1>5, Zenon DEF Covered, Agree
<1> QED  BY <1>1, <1>2, <1>3, <1>6, TextFacts, Zenon DEF Screen

LEMMA ScreenCleared ==
  ASSUME Screen, Cleared, NEW note \in Statuses, status' = note, instances' = Prompted(<<>>, note),
         UNCHANGED <<outputs, lockVars, pointer>>
  PROVE  Screen'
<1>1. /\ outputs' = outputs /\ pending' = pending /\ locked' = locked /\ pointer' = pointer
      /\ password' = <<>> /\ typed' = <<>> /\ lagged' = FALSE
  BY DEF Cleared, lockVars
<1>2. instances \in Seq(Surface) /\ <<>> \in Texts /\ <<>> \in Seq(Keys)  BY TextFacts DEF Screen
<1>3. \A i \in 1 .. Len(instances) : instances[i].locked = locked  BY DEF Screen, Agree
<1>4. /\ instances' \in Seq(Surface) /\ Len(instances') = Len(instances)
      /\ \A i \in 1 .. Len(instances) :
           /\ instances'[i].output = instances[i].output
           /\ instances'[i].locked = locked'
           /\ instances'[i].password = password'
           /\ instances'[i].status = status'
  BY <1>1, <1>2, <1>3, PromptedFacts
<1>5. IsActive' <=> IsActive  BY <1>1 DEF IsActive
<1> QED  BY <1>1, <1>2, <1>4, <1>5, ScreenPrompt

LEMMA ScreenRequired ==
  ASSUME Screen, Required, outputs' = outputs
  PROVE  Screen'
<1>1. /\ pending' = pending /\ locked' = locked /\ pointer' = pointer
      /\ password = <<>> /\ password' = password /\ typed' = typed /\ lagged' = lagged
      /\ status' = "required" /\ instances' = Prompted(<<>>, "required")
  BY DEF Required, lockVars
<1>2. /\ instances \in Seq(Surface) /\ <<>> \in Texts /\ "required" \in Statuses
      /\ typed \in Seq(Keys) /\ lagged \in BOOLEAN /\ (pending => password = <<>>)
      /\ (~lagged => password = typed)
  BY TextFacts DEF Screen, Statuses
<1>3. \A i \in 1 .. Len(instances) : instances[i].locked = locked  BY DEF Screen, Agree
<1>4. /\ instances' \in Seq(Surface) /\ Len(instances') = Len(instances)
      /\ \A i \in 1 .. Len(instances) :
           /\ instances'[i].output = instances[i].output
           /\ instances'[i].locked = locked'
           /\ instances'[i].password = password'
           /\ instances'[i].status = status'
  BY <1>1, <1>2, <1>3, PromptedFacts
<1>5. IsActive' <=> IsActive  BY <1>1 DEF IsActive
<1> QED  BY <1>1, <1>2, <1>4, <1>5, ScreenPrompt

LEMMA ScreenKeyChar ==
  ASSUME Screen, ~(pending /\ locked), NEW key \in Keys, KeyChar(key)
  PROVE  Screen'
<1>1. PICK i \in DOMAIN instances :
        /\ Len(instances[i].field) < MaxText /\ Edited(i, Append(instances[i].field, key))
        /\ lagged' = (lagged \/ instances[i].field # password)
  BY DEF KeyChar
<1> DEFINE text == Append(instances[i].field, key)
<1>2. /\ outputs' = outputs /\ pending' = pending /\ locked' = locked /\ pointer' = pointer
      /\ locked /\ typed' = Append(typed, key) /\ password' = text /\ status' = ""
      /\ instances' = [Prompted(text, "") EXCEPT ![i].field = text]
  BY <1>1 DEF KeyChar, Edited, lockVars
<1>3. /\ instances \in Seq(Surface) /\ typed \in Seq(Keys) /\ password \in Texts /\ lagged \in BOOLEAN
      /\ (~lagged => password = typed) /\ "" \in Statuses
  BY DEF Screen, Statuses
<1>0. instances \in Seq(Surface) /\ DOMAIN instances = 1 .. Len(instances)  BY <1>3, LenProperties
<1>4. i \in 1 .. Len(instances) /\ instances[i] \in Surface
  <2>1. i \in 1 .. Len(instances)  BY <1>0
  <2> QED  BY <1>0, <2>1, ElementOfSeq
<1>5. instances[i].field \in Texts  BY <1>4 DEF Surface
<1>6. text \in Texts  BY <1>1, <1>5, TextFacts
<1>7. ~lagged' => text = typed'
  <2>1. ~lagged' => ~lagged /\ instances[i].field = password  BY <1>1
  <2> QED  BY <1>2, <1>3, <2>1
<1>8. typed' \in Seq(Keys)  BY <1>2, <1>3, AppendFacts
<1>9. lagged' \in BOOLEAN  BY <1>1, <1>3
<1> HIDE DEF text
<1> DEFINE told == Prompted(text, "")
<1>10. /\ told \in Seq(Surface) /\ Len(told) = Len(instances)
       /\ \A j \in 1 .. Len(instances) :
            /\ told[j].output = instances[j].output /\ told[j].locked = instances[j].locked
            /\ told[j].password = text /\ told[j].status = ""
  <2>1. "" \in Statuses  BY <1>3
  <2> QED  BY ZenonT(60), <1>0, <1>6, <2>1, PromptedFacts
<1> HIDE DEF told
<1>11. \A j \in 1 .. Len(instances) : told[j] \in Surface
  <2>1. told \in Seq(Surface) /\ Len(told) = Len(instances)  BY <1>10
  <2> QED  BY <2>1, ElementOfSeq
<1>12. [told[i] EXCEPT !.field = text] \in Surface  BY <1>4, <1>6, <1>11, Zenon DEF Surface
<1>13. instances' = [told EXCEPT ![i] = [told[i] EXCEPT !.field = text]]
  BY <1>2 DEF told
<1>14. /\ instances' \in Seq(Surface) /\ Len(instances') = Len(instances)
       /\ instances'[i] = [told[i] EXCEPT !.field = text]
       /\ \A j \in 1 .. Len(instances) : j # i => instances'[j] = told[j]
  <2>1. told \in Seq(Surface) /\ Len(told) = Len(instances)  BY <1>10
  <2> QED  BY <1>4, <1>12, <1>13, <2>1
<1>15. /\ instances'[i].output = told[i].output /\ instances'[i].locked = told[i].locked
       /\ instances'[i].password = told[i].password /\ instances'[i].status = told[i].status
  BY <1>4, <1>11, <1>14 DEF Surface
<1>16. \A j \in 1 .. Len(instances) : instances[j].locked = locked  BY DEF Screen, Agree
<1>17. \A j \in 1 .. Len(instances) :
           /\ instances'[j].output = instances[j].output
           /\ instances'[j].locked = locked'
           /\ instances'[j].password = password'
           /\ instances'[j].status = status'
  BY ZenonT(60), <1>2, <1>4, <1>10, <1>14, <1>15, <1>16
<1>18. IsActive' <=> IsActive  BY <1>2 DEF IsActive
<1>19. pending' => password' = <<>>  BY <1>2
<1> QED  BY <1>2, <1>3, <1>6, <1>7, <1>8, <1>9, <1>14, <1>17, <1>18, <1>19, ScreenPrompt

LEMMA ScreenPointer ==
  ASSUME Screen, NEW output \in Outputs \cup {None}, PointerMoves(output)
  PROVE  Screen'
<1>1. /\ outputs' = outputs /\ pending' = pending /\ locked' = locked /\ instances' = instances
      /\ password' = password /\ status' = status /\ typed' = typed /\ lagged' = lagged
      /\ pointer' \in Outputs \cup {None}
  BY DEF PointerMoves, promptVars, lockVars
<1> QED  BY <1>1 DEF Screen, Covered, Agree, IsActive

LEMMA ScreenFrame ==
  ASSUME Screen, NEW i \in DOMAIN instances, Frame(i)
  PROVE  Screen'
<1>1. /\ outputs' = outputs /\ pending' = pending /\ locked' = locked /\ pointer' = pointer
      /\ password' = password /\ status' = status /\ typed' = typed /\ lagged' = lagged
      /\ instances' = [instances EXCEPT ![i] = [instances[i] EXCEPT !.field = instances[i].password]]
  BY DEF Frame, promptVars, lockVars
<1>2. instances \in Seq(Surface) /\ DOMAIN instances = 1 .. Len(instances)
  <2>1. instances \in Seq(Surface)  BY DEF Screen
  <2> QED  BY <2>1, LenProperties
<1>3. \A j \in 1 .. Len(instances) : instances[j] \in Surface  BY <1>2, ElementOfSeq
<1>4. i \in 1 .. Len(instances)  BY <1>2
<1>5. [instances[i] EXCEPT !.field = instances[i].password] \in Surface
  <2>1. instances[i] \in Surface /\ instances[i].password \in Texts  BY <1>3, <1>4 DEF Surface
  <2> QED  BY <2>1, Zenon DEF Surface
<1>6. /\ instances' \in Seq(Surface) /\ Len(instances') = Len(instances)
      /\ instances'[i] = [instances[i] EXCEPT !.field = instances[i].password]
      /\ \A j \in 1 .. Len(instances) : j # i => instances'[j] = instances[j]
  BY <1>1, <1>2, <1>4, <1>5
<1>7. \A j \in 1 .. Len(instances) :
        /\ instances'[j].output = instances[j].output /\ instances'[j].locked = instances[j].locked
        /\ instances'[j].password = instances[j].password /\ instances'[j].status = instances[j].status
  <2>1. /\ instances'[i].output = instances[i].output /\ instances'[i].locked = instances[i].locked
        /\ instances'[i].password = instances[i].password /\ instances'[i].status = instances[i].status
    BY <1>3, <1>4, <1>6 DEF Surface
  <2> QED  BY <1>6, <2>1
<1>8. \A j \in 1 .. Len(instances) :
        /\ instances'[j].output = instances[j].output
        /\ instances'[j].locked = locked'
        /\ instances'[j].password = password'
        /\ instances'[j].status = status'
  BY <1>1, <1>7 DEF Screen, Agree
<1>9. IsActive' <=> IsActive  BY <1>1 DEF IsActive
<1>10. /\ password' \in Texts /\ typed' \in Seq(Keys) /\ status' \in Statuses /\ lagged' \in BOOLEAN
       /\ (pending' => password' = <<>>) /\ (~lagged' => password' = typed')
  BY <1>1 DEF Screen
<1> QED  BY <1>1, <1>6, <1>8, <1>9, <1>10, ScreenPrompt

LEMMA ScreenHandleLocked ==
  ASSUME Screen, IsActive, HandleLocked
  PROVE  Screen'
<1> DEFINE told == Prompted(password, "ready")
<1>1. /\ outputs' = outputs /\ pending' = FALSE /\ locked' = TRUE /\ pointer' = pointer
      /\ password' = password /\ status' = "ready" /\ typed' = typed /\ lagged' = lagged
      /\ instances' = [i \in DOMAIN instances |-> [told[i] EXCEPT !.locked = TRUE]]
  BY DEF HandleLocked
<1>2. instances \in Seq(Surface) /\ DOMAIN instances = 1 .. Len(instances) /\ Len(instances) \in Nat
  <2>1. instances \in Seq(Surface)  BY DEF Screen
  <2> QED  BY <2>1, LenProperties
<1>3. /\ told \in Seq(Surface) /\ Len(told) = Len(instances)
      /\ \A j \in 1 .. Len(instances) :
           /\ told[j].output = instances[j].output
           /\ told[j].password = password /\ told[j].status = "ready"
  <2>1. password \in Texts /\ "ready" \in Statuses  BY DEF Screen, Statuses
  <2> QED  BY <1>2, <2>1, PromptedFacts
<1> HIDE DEF told
<1>4. \A j \in 1 .. Len(instances) : told[j] \in Surface
  <2>1. told \in Seq(Surface) /\ Len(told) = Len(instances)  BY <1>3
  <2> QED  BY <2>1, ElementOfSeq
<1>5. \A j \in 1 .. Len(instances) :
        LET s == [told[j] EXCEPT !.locked = TRUE] IN
        /\ s \in Surface /\ s.output = told[j].output /\ s.locked = TRUE
        /\ s.password = told[j].password /\ s.status = told[j].status
  BY <1>4 DEF Surface
<1>6. \A j \in 1 .. Len(instances) : instances'[j] = [told[j] EXCEPT !.locked = TRUE]
  BY <1>1, <1>2
<1>7. instances' \in [1 .. Len(instances) -> Surface]  BY <1>1, <1>2, <1>5
<1>8. instances' \in Seq(Surface) /\ Len(instances') = Len(instances)  BY <1>2, <1>7
<1>9. \A j \in 1 .. Len(instances) :
        /\ instances'[j].output = instances[j].output
        /\ instances'[j].locked = locked'
        /\ instances'[j].password = password'
        /\ instances'[j].status = status'
  BY <1>1, <1>3, <1>5, <1>6
<1>10. IsActive' <=> IsActive  BY <1>1 DEF IsActive
<1>11. /\ password' \in Texts /\ typed' \in Seq(Keys) /\ status' \in Statuses /\ lagged' \in BOOLEAN
       /\ (~lagged' => password' = typed')
  BY <1>1 DEF Screen, Statuses
<1>12. ~pending'  BY <1>1
<1> QED  BY <1>1, <1>8, <1>9, <1>10, <1>11, <1>12, ScreenPrompt

\* The surfaces follow the outputs.
LEMMA Synced ==
  ASSUME Screen, locked \in BOOLEAN, SyncInstances,
         outputs' \in Seq(Outputs), IsInjective(outputs'),
         UNCHANGED <<pending, locked, promptVars>>, pointer' \in Outputs \cup {None}
  PROVE  Screen'
<1>1. /\ pending' = pending /\ locked' = locked /\ password' = password /\ status' = status
      /\ typed' = typed /\ lagged' = lagged
  BY DEF promptVars
<1>2. instances \in Seq(Surface) /\ DOMAIN instances = 1 .. Len(instances) /\ Len(instances) \in Nat
  <2>1. instances \in Seq(Surface)  BY DEF Screen
  <2> QED  BY <2>1, LenProperties
<1>3. /\ password' \in Texts /\ typed' \in Seq(Keys) /\ status' \in Statuses /\ lagged' \in BOOLEAN
      /\ (pending' => password' = <<>>) /\ (~lagged' => password' = typed')
  BY <1>1 DEF Screen
<1>4. ASSUME instances' \in Seq(Surface), Covered', Agree' PROVE Screen'
  BY <1>3, <1>4, Zenon DEF Screen
<1>5. CASE ~IsActive
  <2>1. instances' = instances  BY <1>5 DEF SyncInstances
  <2>2. ~IsActive'  BY <1>1, <1>5 DEF IsActive
  <2>3. instances = <<>>  BY <1>5 DEF Screen, Covered
  <2>4. \A i \in 1 .. Len(instances') : FALSE  BY <2>1, <2>3
  <2>5. Covered' /\ Agree'  BY <2>1, <2>2, <2>3, <2>4, Zenon DEF Covered, Agree
  <2> QED  BY <1>2, <1>4, <2>1, <2>5
<1>6. CASE IsActive
  <2> DEFINE S == {r \in Range(instances) : Contains(outputs', r.output)}
             N == {o \in Outputs : ~HasInstance(o)}
             kept == Only(instances, S)
             new == Only(outputs', N)
             made1 == [n \in DOMAIN new |-> Instance(new[n])]
  <2>1. instances' = kept \o made1  BY <1>6 DEF SyncInstances
  <2>2. kept \in Seq(Surface) /\ \E p : Lists(p, kept, instances, S, Len(instances))
    <3> HIDE DEF S
    <3> QED  BY <1>2, OnlyLists
  <2>3. new \in Seq(Outputs) /\ \E q : Lists(q, new, outputs', N, Len(outputs'))
    <3> HIDE DEF N
    <3> QED  BY OnlyLists
  <2>4. PICK p : Lists(p, kept, instances, S, Len(instances))  BY <2>2
  <2>5. PICK q : Lists(q, new, outputs', N, Len(outputs'))  BY <2>3
  <2>6. \A r \in S : \E m \in 1 .. Len(outputs') : outputs'[m] = r.output
    BY DEF Contains
  <2>7. \A i \in 1 .. Len(instances), m \in 1 .. Len(outputs') :
          instances[i].output = outputs'[m] => instances[i] \in S
    BY <1>2 DEF Contains, Range
  <2>8. \A o \in Outputs : o \in N <=> \A i \in 1 .. Len(instances) : instances[i].output # o
    BY <1>2 DEF HasInstance
  <2> HIDE DEF S, N, kept, new
  <2>9. \A o \in Outputs :
          /\ Instance(o) \in Surface /\ Instance(o).output = o /\ Instance(o).locked = locked
          /\ Instance(o).password = password /\ Instance(o).status = status
    <3>1. <<>> \in Texts /\ password \in Texts /\ status \in Statuses  BY TextFacts DEF Screen
    <3> QED  BY <3>1 DEF Instance, Surface
  <2>10. new = [n \in 1 .. Len(new) |-> new[n]] /\ DOMAIN new = 1 .. Len(new) /\ Len(new) \in Nat
         /\ \A n \in 1 .. Len(new) : new[n] \in Outputs
    BY <2>3
  <2>11. /\ made1 \in Seq(Surface) /\ Len(made1) = Len(new)
         /\ \A n \in 1 .. Len(new) : made1[n] = Instance(new[n])
    <3>1. made1 \in [1 .. Len(new) -> Surface]  BY <2>9, <2>10
    <3> QED  BY <2>10, <3>1
  <2> HIDE DEF made1
  <2>12. Len(kept) \in Nat /\ \A k \in 1 .. Len(kept) : kept[k] \in Surface
    <3>1. kept \in Seq(Surface)  BY <2>2
    <3> QED  BY <3>1, ElementOfSeq, LenProperties
  <2>13. /\ instances' \in Seq(Surface) /\ Len(instances') = Len(kept) + Len(new)
         /\ \A i \in 1 .. Len(instances') :
              \/ i \in 1 .. Len(kept) /\ instances'[i] = kept[i]
              \/ \E n \in 1 .. Len(new) : i = Len(kept) + n /\ instances'[i] = made1[n]
         /\ \A k \in 1 .. Len(kept) : k \in 1 .. Len(instances') /\ instances'[k] = kept[k]
         /\ \A n \in 1 .. Len(new) :
              Len(kept) + n \in 1 .. Len(instances') /\ instances'[Len(kept) + n] = made1[n]
    <3>1. kept \in Seq(Surface)  BY <2>2
    <3>2. /\ kept \o made1 \in Seq(Surface) /\ Len(kept \o made1) = Len(kept) + Len(new)
          /\ \A i \in 1 .. Len(kept) + Len(new) :
               (kept \o made1)[i] = IF i <= Len(kept) THEN kept[i] ELSE made1[i - Len(kept)]
      <4>1. made1 \in Seq(Surface) /\ Len(made1) = Len(new)  BY <2>11
      <4>2. /\ kept \o made1 \in Seq(Surface) /\ Len(kept \o made1) = Len(kept) + Len(made1)
            /\ \A i \in 1 .. Len(kept) + Len(made1) :
                 (kept \o made1)[i] = IF i <= Len(kept) THEN kept[i] ELSE made1[i - Len(kept)]
        BY <3>1, <4>1, ConcatProperties, Zenon
      <4> QED  BY <4>1, <4>2
    <3>3. /\ instances' \in Seq(Surface) /\ Len(instances') = Len(kept) + Len(new)
          /\ \A i \in 1 .. Len(kept) + Len(new) :
               instances'[i] = IF i <= Len(kept) THEN kept[i] ELSE made1[i - Len(kept)]
      BY <2>1, <3>2
    <3>4. \A i \in 1 .. Len(kept) + Len(new) :
            i \in 1 .. Len(kept) \/ \E n \in 1 .. Len(new) : i = Len(kept) + n
      <4> TAKE i \in 1 .. Len(kept) + Len(new)
      <4>1. CASE i <= Len(kept)  BY <4>1, <2>12
      <4>2. CASE ~(i <= Len(kept))
        <5>1. i - Len(kept) \in 1 .. Len(new) /\ i = Len(kept) + (i - Len(kept))
          BY <4>2, <2>10, <2>12
        <5> QED  BY <5>1
      <4> QED  BY <4>1, <4>2
    <3>5. \A n \in 1 .. Len(new) :
            /\ Len(kept) + n \in 1 .. Len(kept) + Len(new) /\ ~(Len(kept) + n <= Len(kept))
            /\ (Len(kept) + n) - Len(kept) = n
      BY <2>10, <2>12
    <3>6. \A k \in 1 .. Len(kept) : k \in 1 .. Len(kept) + Len(new) /\ k <= Len(kept)
      BY <2>10, <2>12
    <3>7. \A k \in 1 .. Len(kept) : instances'[k] = kept[k]  BY <3>3, <3>6
    <3>8. \A n \in 1 .. Len(new) : instances'[Len(kept) + n] = made1[n]  BY <3>3, <3>5
    <3> HIDE DEF SyncInstances
    <3> QED  BY <3>3, <3>4, <3>5, <3>6, <3>7, <3>8
  <2>14. \A k \in 1 .. Len(kept) :
           p[k] \in 1 .. Len(instances) /\ kept[k] = instances[p[k]] /\ kept[k] \in S
    BY <2>4 DEF Lists
  <2>15. \A n \in 1 .. Len(new) :
           q[n] \in 1 .. Len(outputs') /\ new[n] = outputs'[q[n]] /\ new[n] \in N
    BY <2>5 DEF Lists
  <2>16. Agree'
    <3>1. \A k \in 1 .. Len(kept) :
            kept[k].locked = locked /\ kept[k].password = password /\ kept[k].status = status
      BY <2>14 DEF Screen, Agree
    <3>2. \A n \in 1 .. Len(new) :
            made1[n].locked = locked /\ made1[n].password = password /\ made1[n].status = status
      BY <2>9, <2>10, <2>11
    <3>3. \A i \in 1 .. Len(instances') :
            /\ instances'[i].locked = locked /\ instances'[i].password = password
            /\ instances'[i].status = status
      <4> TAKE i \in 1 .. Len(instances')
      <4>1. CASE i \in 1 .. Len(kept) /\ instances'[i] = kept[i]  BY <3>1, <4>1
      <4>2. CASE \E n \in 1 .. Len(new) : i = Len(kept) + n /\ instances'[i] = made1[n]
        BY <3>2, <4>2
      <4> QED  BY <2>13, <4>1, <4>2
    <3> QED  BY <1>1, <3>3 DEF Agree
  <2>17. \A i, j \in 1 .. Len(instances') : instances'[i].output = instances'[j].output => i = j
    <3> SUFFICES ASSUME NEW i \in 1 .. Len(instances'), NEW j \in 1 .. Len(instances'),
                        instances'[i].output = instances'[j].output
                 PROVE  i = j
      OBVIOUS
    <3>1. ASSUME NEW k \in 1 .. Len(kept), NEW l \in 1 .. Len(kept), kept[k].output = kept[l].output
          PROVE  k = l
      <4>0. \A x, y \in 1 .. Len(instances) : instances[x].output = instances[y].output => x = y
        BY DEF Screen, Covered
      <4>1. p[k] = p[l]
        <5>1. p[k] \in 1 .. Len(instances) /\ p[l] \in 1 .. Len(instances)  BY <2>14
        <5>2. instances[p[k]].output = instances[p[l]].output  BY <3>1, <2>14
        <5> QED  BY <4>0, <5>1, <5>2
      <4>2. \A x, y \in 1 .. Len(kept) : x < y => p[x] < p[y]  BY <2>4 DEF Lists
      <4>3. p[k] \in Nat /\ p[l] \in Nat /\ ~(p[k] < p[l]) /\ ~(p[l] < p[k])  BY <4>1, <2>14
      <4> QED  BY <4>2, <4>3
    <3>2. ASSUME NEW n \in 1 .. Len(new), NEW l \in 1 .. Len(new), made1[n].output = made1[l].output
          PROVE  n = l
      <4>1. outputs'[q[n]] = outputs'[q[l]]  BY <3>2, <2>9, <2>10, <2>11, <2>15
      <4>2. q[n] = q[l]  BY <4>1, <2>15 DEF IsInjective
      <4>3. \A x, y \in 1 .. Len(new) : x < y => q[x] < q[y]  BY <2>5 DEF Lists
      <4>4. q[n] \in Nat /\ q[l] \in Nat /\ ~(q[n] < q[l]) /\ ~(q[l] < q[n])  BY <4>2, <2>15
      <4> QED  BY SMTT(30), <4>3, <4>4, <2>10
    <3>3. ASSUME NEW k \in 1 .. Len(kept), NEW n \in 1 .. Len(new)
          PROVE  kept[k].output # made1[n].output
      <4>1. made1[n].output = new[n] /\ new[n] \in Outputs /\ new[n] \in N
        BY <2>9, <2>10, <2>11, <2>15
      <4> QED  BY <4>1, <2>8, <2>14
    <3>4. CASE i \in 1 .. Len(kept) /\ instances'[i] = kept[i]
      <4>1. CASE j \in 1 .. Len(kept) /\ instances'[j] = kept[j]  BY <3>1, <3>4, <4>1
      <4>2. CASE \E n \in 1 .. Len(new) : j = Len(kept) + n /\ instances'[j] = made1[n]
        BY <3>3, <3>4, <4>2
      <4> QED  BY <2>13, <4>1, <4>2
    <3>5. CASE \E n \in 1 .. Len(new) : i = Len(kept) + n /\ instances'[i] = made1[n]
      <4>1. CASE j \in 1 .. Len(kept) /\ instances'[j] = kept[j]  BY <3>3, <3>5, <4>1
      <4>2. CASE \E n \in 1 .. Len(new) : j = Len(kept) + n /\ instances'[j] = made1[n]
        BY <3>2, <3>5, <4>2
      <4> QED  BY <2>13, <4>1, <4>2
    <3> QED  BY <2>13, <3>4, <3>5
  <2>18. {r.output : r \in Range(instances')} = Range(outputs')
    <3>1. \A o : o \in {r.output : r \in Range(instances')} <=>
                 \E i \in 1 .. Len(instances') : instances'[i].output = o
      <4>1. DOMAIN instances' = 1 .. Len(instances')  BY <2>13
      <4> QED  BY <4>1 DEF Range
    <3>2. \A o : o \in Range(outputs') <=> \E m \in 1 .. Len(outputs') : outputs'[m] = o
      BY DEF Range
    <3>3. ASSUME NEW i \in 1 .. Len(instances')
          PROVE  \E m \in 1 .. Len(outputs') : outputs'[m] = instances'[i].output
      <4>1. CASE i \in 1 .. Len(kept) /\ instances'[i] = kept[i]
        BY <4>1, <2>6, <2>14
      <4>2. CASE \E n \in 1 .. Len(new) : i = Len(kept) + n /\ instances'[i] = made1[n]
        <5>1. PICK n \in 1 .. Len(new) : instances'[i] = made1[n]  BY <4>2
        <5>2. instances'[i].output = new[n]  BY <5>1, <2>9, <2>10, <2>11
        <5> QED  BY <5>2, <2>15
      <4> QED  BY <2>13, <4>1, <4>2
    <3>4. ASSUME NEW m \in 1 .. Len(outputs')
          PROVE  \E i \in 1 .. Len(instances') : instances'[i].output = outputs'[m]
      <4>1. outputs'[m] \in Outputs  OBVIOUS
      <4>2. CASE \E i \in 1 .. Len(instances) : instances[i].output = outputs'[m]
        <5>1. PICK i \in 1 .. Len(instances) : instances[i].output = outputs'[m]  BY <4>2
        <5>2. PICK k \in 1 .. Len(kept) : p[k] = i  BY <5>1, <2>4, <2>7 DEF Lists
        <5>3. k \in 1 .. Len(instances') /\ instances'[k] = instances[i]  BY <5>2, <2>13, <2>14
        <5> QED  BY <5>1, <5>3
      <4>3. CASE ~ \E i \in 1 .. Len(instances) : instances[i].output = outputs'[m]
        <5>1. outputs'[m] \in N  BY <4>1, <4>3, <2>8
        <5>2. PICK n \in 1 .. Len(new) : q[n] = m  BY <5>1, <2>5 DEF Lists
        <5>3. Len(kept) + n \in 1 .. Len(instances') /\ instances'[Len(kept) + n] = made1[n]
          BY <5>2, <2>13
        <5>4. made1[n].output = outputs'[m]  BY <5>2, <2>9, <2>10, <2>11, <2>15
        <5> QED  BY <5>3, <5>4
      <4> QED  BY <4>2, <4>3
    <3> QED  BY <3>1, <3>2, <3>3, <3>4
  <2>19. IsActive'  BY <1>1, <1>6 DEF IsActive
  <2>20. Covered'  BY <2>17, <2>18, <2>19, Zenon DEF Covered
  <2> QED  BY <1>4, <2>13, <2>16, <2>20
<1> QED  BY <1>5, <1>6

LEMMA ScreenOutputs ==
  ASSUME Screen, locked \in BOOLEAN, NEW output \in Outputs,
         OutputAppears(output) \/ OutputGoes(output)
  PROVE  Screen'
<1>1. outputs \in Seq(Outputs) /\ Len(outputs) \in Nat /\ IsInjective(outputs)
      /\ DOMAIN outputs = 1 .. Len(outputs)
  <2>1. outputs \in Seq(Outputs) /\ IsInjective(outputs)  BY DEF Screen
  <2> QED  BY <2>1, LenProperties
<1>2. CASE OutputAppears(output)
  <2>1. /\ ~Contains(outputs, output) /\ outputs' = Append(outputs, output) /\ SyncInstances
        /\ UNCHANGED <<pending, locked, promptVars>> /\ pointer' = pointer
    BY <1>2 DEF OutputAppears, lockVars
  <2>2. \A i \in 1 .. Len(outputs) : outputs[i] # output  BY <2>1 DEF Contains
  <2>3. /\ outputs' \in Seq(Outputs) /\ Len(outputs') = Len(outputs) + 1
        /\ outputs'[Len(outputs) + 1] = output
        /\ \A i \in 1 .. Len(outputs) : outputs'[i] = outputs[i]
        /\ \A i \in 1 .. Len(outputs) + 1 : i \in 1 .. Len(outputs) \/ i = Len(outputs) + 1
    BY <1>1, <2>1, AppendFacts
  <2>4. \A i, j \in 1 .. Len(outputs') : outputs'[i] = outputs'[j] => i = j
    BY <1>1, <2>2, <2>3 DEF IsInjective
  <2>5. IsInjective(outputs')
    <3>1. DOMAIN outputs' = 1 .. Len(outputs')  BY <2>3
    <3> QED  BY <2>4, <3>1 DEF IsInjective
  <2>6. pointer' \in Outputs \cup {None}  BY <2>1 DEF Screen
  <2> QED  BY <2>1, <2>3, <2>5, <2>6, Synced
<1>3. CASE OutputGoes(output)
  <2> DEFINE others == Outputs \ {output}
  <2>1. /\ outputs' = Only(outputs, others) /\ SyncInstances
        /\ UNCHANGED <<pending, locked, promptVars>>
        /\ pointer' \in {None} \cup Outputs \/ pointer' = pointer
    BY <1>3 DEF OutputGoes, lockVars
  <2>2. outputs' \in Seq(Outputs) /\ \E p : Lists(p, outputs', outputs, others, Len(outputs))
    BY <1>1, <2>1, OnlyLists
  <2>3. PICK p : Lists(p, outputs', outputs, others, Len(outputs))  BY <2>2
  <2>4. DOMAIN outputs' = 1 .. Len(outputs') /\ Len(outputs') \in Nat  BY <2>2, LenProperties
  <2>5. IsInjective(outputs')
    <3> SUFFICES ASSUME NEW k \in 1 .. Len(outputs'), NEW l \in 1 .. Len(outputs'),
                        outputs'[k] = outputs'[l]
                 PROVE  k = l
      BY <2>4 DEF IsInjective
    <3>1. p[k] \in 1 .. Len(outputs) /\ p[l] \in 1 .. Len(outputs)  BY <2>3 DEF Lists
    <3>2. outputs[p[k]] = outputs[p[l]]  BY <2>3 DEF Lists
    <3>3. p[k] = p[l]  BY <1>1, <3>1, <3>2 DEF IsInjective
    <3>4. ~(p[k] < p[l]) /\ ~(p[l] < p[k])  BY <1>1, <3>1, <3>3
    <3>5. ~(k < l) /\ ~(l < k)  BY <2>3, <3>4 DEF Lists
    <3> QED  BY <2>4, <3>5
  <2>6. pointer' \in Outputs \cup {None}  BY <2>1 DEF Screen
  <2> QED  BY <2>1, <2>2, <2>5, <2>6, Synced
<1> QED  BY <1>2, <1>3

-----------------------------------------------------------------------------
(* The steps. *)

\* An attempt, from the keyboard or from a surface's button.
LEMMA AttemptInv ==
  ASSUME IInv, IsActive, TryAuthenticate, UNCHANGED <<outputs, happened, serverVars>>
  PROVE  IInv'
<1>1. CASE Required
  <2>1. UNCHANGED wireVars  BY <1>1 DEF Required, wireVars
  <2> QED  BY <1>1, <2>1, WireKept, ScreenRequired DEF IInv
<1>2. CASE Refused
  <2>1. UNCHANGED wireVars  BY <1>2 DEF Refused, wireVars
  <2>2. "failed" \in Statuses  BY DEF Statuses
  <2> QED  BY <1>2, <2>1, <2>2, WireKept, ScreenCleared DEF IInv, Refused
<1>3. CASE Unlocked
  <2>1. ~pending  BY <1>3, LockAssumption DEF Unlocked, IInv, Screen
  <2>2. /\ Destroy /\ LetGo /\ granted' = granted \cup {lock} /\ outputs' = outputs
        /\ happened' = happened /\ UNCHANGED serverVars /\ hasty' = hasty /\ ended' = ended
    BY <1>3 DEF Unlocked
  <2>3. WireTypes /\ lock \in Nat /\ ended \in Ends  BY Typed DEF IInv, Wire, WireTypes
  <2>4. lock \in Allowed' /\ \A id \in Nat : id \in Allowed => id \in Allowed'
    BY <2>2, <2>3 DEF Allowed
  <2>5. /\ lock' = 0 /\ pending' = FALSE /\ locked' = FALSE /\ made' = made
        /\ hasty \subseteq hasty' /\ ended' \in Ends /\ (ended # "no" => ended' # "no")
    BY <2>2, <2>3 DEF LetGo
  <2>6. Wire'  BY <2>1, <2>2, <2>4, <2>5, WireLetGo DEF IInv
  <2> QED  BY <2>2, <2>6, ScreenLetGo DEF IInv
<1> QED  BY <1>1, <1>2, <1>3 DEF TryAuthenticate

LEMMA UserInv == IInv /\ User => IInv'
<1> SUFFICES ASSUME IInv, User PROVE IInv'
  OBVIOUS
<1>1. CASE Lock
  <2>1. CASE outputs # <<>>  BY <1>1, <2>1, WireLockHeld, ScreenLock DEF IInv
  <2>2. CASE outputs = <<>>  BY <1>1, <2>2, WireLockTakenBack, ScreenNoLock DEF IInv
  <2> QED  BY <2>1, <2>2
<1>2. CASE KeyEscape
  <2>1. UNCHANGED wireVars  BY <1>2 DEF KeyEscape, wireVars
  <2>2. "cleared" \in Statuses  BY DEF Statuses
  <2> QED  BY <1>2, <2>1, <2>2, WireKept, ScreenCleared DEF IInv, KeyEscape
<1>3. CASE KeyReturn  BY <1>3, AttemptInv DEF KeyReturn, IsActive
<1>4. CASE LoginClick  BY <1>4, AttemptInv DEF LoginClick
<1>5. ASSUME NEW key \in Keys, KeyChar(key) PROVE IInv'
  <2>1. UNCHANGED wireVars  BY <1>5 DEF KeyChar, wireVars
  <2>2. ~(pending /\ locked)  BY DEF IInv, Wire, WireTypes
  <2> QED  BY <1>5, <2>1, <2>2, WireKept, ScreenKeyChar DEF IInv
<1>6. ASSUME NEW output \in Outputs \cup {None}, PointerMoves(output) PROVE IInv'
  <2>1. UNCHANGED wireVars  BY <1>6 DEF PointerMoves, wireVars
  <2> QED  BY <1>6, <2>1, WireKept, ScreenPointer DEF IInv
<1> QED  BY <1>1, <1>2, <1>3, <1>4, <1>5, <1>6 DEF User

\* A lock is finished before the shell hears that it is locked only when it is denied.
LEMMA DeliverInv == IInv /\ Deliver => IInv'
<1> SUFFICES ASSUME IInv, Deliver PROVE IInv'
  OBVIOUS
<1>0. WireTypes /\ happened \in Seq(Event) /\ ended \in Ends  BY DEF IInv, Wire, WireTypes
<1>1. ASSUME happened # <<>>, Head(happened).id = lock
      PROVE  IsActive /\ 1 \in 1 .. Len(happened) /\ Head(happened) = happened[1]
  <2>1. /\ Len(happened) \in Nat /\ Len(happened) >= 1 /\ Head(happened) = happened[1]
    BY <1>0, <1>1, TailFacts
  <2>2. 1 \in 1 .. Len(happened)  BY <2>1
  <2>3. lock # 0  BY <1>0, <1>1, <2>1, <2>2, Typed
  <2> QED  BY <1>0, <2>1, <2>2, <2>3 DEF WireTypes
<1>2. CASE HandleLocked
  <2>1. IsActive  BY <1>1, <1>2 DEF HandleLocked, IsNext
  <2> QED  BY <1>2, <2>1, WireHandleLocked, ScreenHandleLocked DEF IInv
<1>3. CASE HandleFinished
  <2>1. /\ happened # <<>> /\ Head(happened).name = "finished" /\ Head(happened).id = lock
        /\ Destroy /\ LetGo /\ happened' = Tail(happened)
        /\ outputs' = outputs /\ granted' = granted /\ hasty' = hasty /\ ended' = ended
        /\ UNCHANGED serverVars
    BY <1>3 DEF HandleFinished, IsNext, historyVars
  <2>2. IsActive /\ 1 \in 1 .. Len(happened) /\ Head(happened) = happened[1]  BY <1>1, <2>1
  <2>3. ASSUME error = 0
        PROVE  /\ lock <= Len(objects)
               /\ locked => objects[lock] = "over"
               /\ pending => objects[lock] = "denied"
    <3>1. Events /\ OwnLock  BY <2>3 DEF IInv, Wire, Queues
    <3>2. lock <= Len(objects) /\ objects[lock] \in {"denied", "over", "gone"}
      BY <2>1, <2>2, <3>1 DEF Events
    <3>3. locked => objects[lock] = "over"  BY <3>1, <3>2 DEF OwnLock
    <3>4. ASSUME pending, objects[lock] # "denied" PROVE FALSE
      <4>1. \E j \in 1 .. 1 - 1 : happened[j].id = lock /\ happened[j].name = "locked"
        BY <2>1, <2>2, <3>1, <3>2, <3>4 DEF OwnLock
      <4> QED  BY <4>1
    <3> QED  BY <3>2, <3>3, <3>4
  <2>4. /\ Allowed' = Allowed /\ hasty \subseteq hasty' /\ ended' \in Ends
        /\ (ended # "no" => ended' # "no")
    BY <1>0, <2>1 DEF Allowed
  <2>5. lock' = 0 /\ pending' = FALSE /\ locked' = FALSE /\ made' = made  BY <2>1 DEF LetGo
  <2>6. Wire'  BY <2>1, <2>2, <2>3, <2>4, <2>5, WireLetGo DEF IInv
  <2> QED  BY <2>1, <2>6, ScreenLetGo DEF IInv
<1>4. CASE DropEvent
  <2>1. UNCHANGED screenVars  BY <1>4 DEF DropEvent, shellVars, screenVars, lockVars
  <2> QED  BY <1>4, <2>1, WireDropEvent, ScreenKept DEF IInv
<1> QED  BY <1>2, <1>3, <1>4 DEF Deliver

\* What the shell does not wait for when it is stopped is hasty, and what it has locked
\* it may unlock.
LEMMA StopInv == ASSUME IInv, Stop PROVE IInv'
<1>1. /\ ended = "no" /\ LetGo /\ outputs' = outputs /\ granted' = granted
      /\ happened' = happened /\ UNCHANGED serverVars
      /\ ended' = IF locked THEN "locked" ELSE "idle"
      /\ hasty' = IF pending THEN hasty \cup {lock} ELSE hasty
      /\ (lock # 0 /\ Destroy) \/ requests' = requests
  BY DEF Stop
<1>2. Screen /\ Wire /\ WireTypes /\ lock \in Nat  BY Typed DEF IInv, Wire
<1>3. Screen'  BY <1>1, <1>2, ScreenLetGo
<1>4. /\ lock' = 0 /\ pending' = FALSE /\ locked' = FALSE /\ made' = made
      /\ hasty \subseteq hasty' /\ ended' \in Ends /\ ended' # "no"
  BY <1>1 DEF LetGo, Ends
<1>5. CASE requests' = requests
  <2>1. Wire'  BY <1>1, <1>2, <1>4, <1>5, WireLost
  <2> QED  BY <1>3, <2>1 DEF IInv
<1>6. CASE lock # 0 /\ Destroy
  <2>1. IsActive  BY <1>2, <1>6 DEF WireTypes
  <2>2. locked => lock \in Allowed'  BY <1>1, <1>2 DEF Allowed
  <2>3. pending => lock \in hasty'  BY <1>1
  <2>4. \A id \in Nat : id \in Allowed => id \in Allowed'  BY <1>1 DEF Allowed
  <2>5. Wire'  BY <1>1, <1>2, <1>4, <1>6, <2>1, <2>2, <2>3, <2>4, WireLetGo
  <2> QED  BY <1>3, <2>5 DEF IInv
<1> QED  BY <1>1, <1>5, <1>6

LEMMA NextInv == IInv /\ [Next]_vars => IInv'
<1> SUFFICES ASSUME IInv, [Next]_vars PROVE IInv'
  OBVIOUS
<1>1. CASE User  BY <1>1, UserInv
<1>2. ASSUME NEW output \in Outputs, OutputAppears(output) \/ OutputGoes(output) PROVE IInv'
  <2>1. UNCHANGED wireVars  BY <1>2 DEF OutputAppears, OutputGoes, wireVars
  <2>2. locked \in BOOLEAN  BY DEF IInv, Wire, WireTypes
  <2> QED  BY <1>2, <2>1, <2>2, WireKept, ScreenOutputs DEF IInv
<1>3. ASSUME NEW i \in DOMAIN instances, Frame(i) PROVE IInv'
  <2>1. UNCHANGED wireVars  BY <1>3 DEF Frame, wireVars
  <2> QED  BY <1>3, <2>1, WireKept, ScreenFrame DEF IInv
<1>4. CASE Deliver  BY <1>4, DeliverInv
<1>5. CASE Stop  BY <1>5, StopInv
<1>6. CASE ReadRequest
  <2>1. UNCHANGED screenVars  BY <1>6 DEF ReadRequest, shellVars, screenVars, lockVars
  <2> QED  BY <1>6, <2>1, WireRead, ScreenKept DEF IInv
<1>7. CASE Answer \/ \E id \in DOMAIN objects : GiveUp(id)
  <2>1. UNCHANGED screenVars
    BY <1>7 DEF Answer, Grant, Deny, GiveUp, shellVars, screenVars, lockVars
  <2> QED  BY <1>7, <2>1, WireAnswers, ScreenKept DEF IInv
<1>8. CASE UNCHANGED vars
  <2>1. UNCHANGED wireVars /\ UNCHANGED screenVars
    BY <1>8 DEF vars, shellVars, wireVars, screenVars, lockVars
  <2> QED  BY <2>1, WireKept, ScreenKept DEF IInv
<1> QED  BY <1>1, <1>2, <1>3, <1>4, <1>5, <1>6, <1>7, <1>8 DEF Next

LEMMA IsInvariant == Spec => []IInv
<1>1. Init => IInv  BY WireInit, ScreenInit DEF IInv
<1> QED  BY <1>1, NextInv, PTL DEF Spec

-----------------------------------------------------------------------------
(* The theorems. *)

\* An object the session is locked for, when nothing is under way, is the one the
\* shell holds, and the shell knows.
LEMMA InvImplies == IInv => LockInv
<1> SUFFICES ASSUME IInv PROVE LockInv
  OBVIOUS
<1>0. Screen /\ Wire /\ WireTypes  BY DEF IInv, Wire
<1>1. /\ instances \in Seq(Surface) /\ DOMAIN instances = 1 .. Len(instances)
      /\ \A i \in 1 .. Len(instances) : instances[i] \in Surface
  <2>1. instances \in Seq(Surface)  BY <1>0 DEF Screen
  <2> QED  BY <2>1, LenProperties, ElementOfSeq
<1>2. \A r \in Range(instances) : \E i \in 1 .. Len(instances) : r = instances[i]
  BY <1>1 DEF Range
<1>3. \A r \in Range(instances) :
        /\ r.password \in Texts /\ r.field \in Texts /\ r.status \in Statuses
        /\ r.locked = locked /\ r.password = password /\ r.status = status
  <2>1. \A i \in 1 .. Len(instances) :
          /\ instances[i].password \in Texts /\ instances[i].field \in Texts
          /\ instances[i].status \in Statuses
    BY <1>1 DEF Surface
  <2> QED  BY <1>0, <1>2, <2>1 DEF Screen, Agree
<1>4. TypeOK
  <2>1. IsInjective(outputs) /\ Range(outputs) \subseteq Outputs
    BY <1>0 DEF Screen, Range
  <2>2. lagged \in BOOLEAN  BY <1>0 DEF Screen
  <2>3. /\ made \in 0 .. MaxLocks /\ lock \in {0, made} /\ ~(pending /\ locked) /\ (lock # 0 <=> IsActive)
        /\ pending \in BOOLEAN /\ locked \in BOOLEAN /\ ended \in Ends
        /\ objects \in Seq(States) /\ session \in 0 .. Len(objects) /\ error \in 0 .. Len(objects)
    BY <1>0 DEF WireTypes
  <2>4. Range(objects) \subseteq {"new", "locked", "denied", "over", "gone"}
    BY <2>3 DEF States, Range
  <2>5. {pending, locked, lagged} \subseteq BOOLEAN /\ {session, error} \subseteq 0 .. Len(objects)
    BY <2>2, <2>3
  <2>6. Prompts \cup {password} \subseteq Texts  BY <1>0, <1>3 DEF Prompts, Screen
  <2>7. {r.status : r \in Range(instances)} \cup {status} \subseteq Statuses  BY <1>0, <1>3 DEF Screen
  <2>8. pointer \in Outputs \cup {None}  BY <1>0 DEF Screen
  <2> QED  BY <2>1, <2>3, <2>4, <2>5, <2>6, <2>7, <2>8, Zenon DEF TypeOK
<1>5. OutputsAreCovered  BY <1>0, <1>1 DEF OutputsAreCovered, Screen, Covered
<1>6. SurfacesAgree  BY <1>3 DEF SurfacesAgree
<1>7. PasswordIsTyped  BY <1>0 DEF PasswordIsTyped, Screen
<1>8. LockedHasPrompt
  <2> SUFFICES ASSUME ended = "no", error = 0, session # 0, requests = <<>>, happened = <<>>
               PROVE  lock = session /\ locked
    BY DEF LockedHasPrompt
  <2>1. /\ LockRequests /\ OwnLock /\ Session /\ session \in 0 .. Len(objects)
        /\ Len(objects) \in Nat /\ made \in Nat
    BY <1>0, Typed DEF Wire, Queues, WireTypes
  <2>2. session \in 1 .. Len(objects) /\ session \in 1 .. made  BY <2>1 DEF LockRequests
  <2>3. objects[session] = "locked"  BY <2>1, <2>2 DEF Session
  <2>4. (\A i \in 1 .. Len(requests) : FALSE) /\ (\A i \in 1 .. Len(happened) : FALSE)
    OBVIOUS
  <2>5. session = lock  BY <2>1, <2>2, <2>3, <2>4 DEF Session
  <2>6. ~pending  BY <2>1, <2>2, <2>3, <2>4, <2>5 DEF OwnLock
  <2> QED  BY <1>0, <2>2, <2>5, <2>6 DEF WireTypes, IsActive
<1>9. NoProtocolError  BY <1>0 DEF NoProtocolError, Wire
<1> QED  BY <1>4, <1>5, <1>6, <1>7, <1>8, <1>9 DEF LockInv

\* However requests, events, keys and outputs cross: no request breaks the protocol
\* but one for a lock the shell did not wait for, the outputs are covered by surfaces
\* that agree with the prompt, and a locked session has a shell that takes the
\* password, as long as the shell and its connection live.
THEOREM LockScreenInvariant == Spec => []LockInv
BY IsInvariant, InvImplies, PTL

LEMMA UnlockStep ==
  IInv /\ [Next]_vars =>
    (session # 0 /\ session' = 0 =>
       session \in granted \/ objects'[session] = "over" \/ ended = "locked")
<1> SUFFICES ASSUME IInv, [Next]_vars, session # 0, session' = 0
             PROVE  session \in granted \/ objects'[session] = "over" \/ ended = "locked"
  OBVIOUS
<1>0. /\ Wire /\ objects \in Seq(States) /\ DOMAIN objects = 1 .. Len(objects)
  <2>1. Wire /\ objects \in Seq(States)  BY DEF IInv, Wire, WireTypes
  <2> QED  BY <2>1, LenProperties
<1>1. CASE UNCHANGED serverVars  BY <1>1 DEF serverVars
<1>2. CASE ReadRequest
  <2>1. session \in Allowed  BY <1>0, <1>2, WireRead
  <2> QED  BY <2>1 DEF Allowed
<1>3. CASE Answer
  <2>1. PICK id \in DOMAIN objects : Grant(id) \/ Deny(id)  BY <1>3 DEF Answer
  <2>2. id # 0  BY <1>0, <2>1
  <2> QED  BY <2>1, <2>2 DEF Grant, Deny
<1>4. ASSUME NEW id \in DOMAIN objects, GiveUp(id) PROVE objects'[session] = "over"
  <2>1. id \in 1 .. Len(objects) /\ objects[id] = "locked" /\ error = 0
        /\ objects' = [objects EXCEPT ![id] = "over"]
    BY <1>0, <1>4 DEF GiveUp
  <2>2. session = id  BY <1>0, <2>1 DEF Wire, Queues, Session
  <2> QED  BY <1>0, <2>1, <2>2
<1> QED
  BY <1>1, <1>2, <1>3, <1>4 DEF Next, User, Deliver, Stop, Lock, KeyEscape, KeyReturn, LoginClick, KeyChar,
     PointerMoves, OutputAppears, OutputGoes, Frame, HandleLocked, HandleFinished, DropEvent, vars

\* The compositor unlocks a session for a request of the shell only when the password
\* for that lock was right, or when the shell was stopped while it had the session
\* locked, whatever is under way in either direction.
THEOREM UnlocksForPassword == Spec => UnlockNeedsPassword
<1>1. IInv /\ [Next]_vars =>
        [session # 0 /\ session' = 0 =>
           \/ session \in granted
           \/ objects'[session] = "over"
           \/ ended = "locked"]_vars
  BY UnlockStep
<1> QED  BY <1>1, IsInvariant, PTL DEF Spec, UnlockNeedsPassword
=============================================================================
