--------------------------- MODULE AccountsProofs ---------------------------
(***************************************************************************)
(* An active ADMIN always remains, a generated password has to be changed, *)
(* and sessions die with their password: for any accounts, roles,          *)
(* passwords and requests, whichever requests an exception ends.           *)
(***************************************************************************)
EXTENDS Accounts, SequenceTheorems, TLAPS

(* What a request carries while it waits.                                    *)
Carries(q) ==
  request[q] # Nothing =>
    /\ Exists(request[q].target) /\ Exists(request[q].actor)
    /\ request[q].op = "change" => request[q].actor = request[q].target
    /\ request[q].op \in {"change", "reset"} => request[q].new \in Passwords
    /\ request[q].op = "roles" => request[q].roles # {}

(* Whoever asked for a lock is in its queue, and nobody else is.             *)
InQueue(q) == \E i \in 1..Len(queue[LockOf(request[q].op)]) :
                queue[LockOf(request[q].op)][i] = q

Queued ==
  \A q \in Requests : request[q] # Nothing =>
    (request[q].op # "login" <=> InQueue(q))

(* A request that is past its check is the head of its queue.                *)
HeadWrites ==
  \A q \in Requests : request[q] # Nothing /\ request[q].pc = "write" =>
    /\ request[q].op # "login"
    /\ queue[LockOf(request[q].op)] # << >>
    /\ queue[LockOf(request[q].op)][1] = q

(* No token is left without its account.                                     *)
TokensHaveUsers == \A s \in Sessions : token[s] # Nothing => Exists(token[s].user)

TypeInv == /\ TypeOK /\ (\A q \in Requests : Carries(q)) /\ TokensHaveUsers
           /\ Queued /\ HeadWrites

-----------------------------------------------------------------------------
(* Who leaves a queue, from wherever in it, leaves the others as they were.  *)
LEMMA RemoveFirstProperties ==
  ASSUME NEW S, NEW s \in Seq(S), IsInjective(s), NEW x
  PROVE  LET t == RemoveFirst(s, x) IN
         /\ t \in Seq(S)
         /\ IsInjective(t)
         /\ \A i \in 1..Len(t) : t[i] # x /\ \E j \in 1..Len(s) : s[j] = t[i]
         /\ \A j \in 1..Len(s) : s[j] # x => \E i \in 1..Len(t) : t[i] = s[j]
         /\ s # << >> /\ s[1] # x => t # << >> /\ t[1] = s[1]
<1> DEFINE t == RemoveFirst(s, x)
<1>0. Len(s) \in Nat /\ DOMAIN s = 1..Len(s)
  OBVIOUS
<1>1. CASE ~\E i \in 1..Len(s) : s[i] = x
  <2>1. t = s
    BY <1>1 DEF RemoveFirst
  <2> HIDE DEF t
  <2>2. s # << >> => 1 \in 1..Len(s)
    BY <1>0, EmptySeq
  <2> QED
    BY <1>0, <1>1, <2>1, <2>2 DEF t
<1>2. CASE \E i \in 1..Len(s) : s[i] = x
  <2>1. PICK k \in 1..Len(s) : s[k] = x
    BY <1>2
  <2>2. \A i \in 1..Len(s) : s[i] = x <=> i = k
    BY <1>0, <2>1 DEF IsInjective
  <2>3. {i \in 1..Len(s) : s[i] = x} = {k}
    BY <2>2
  <2>4. Min({k}) = k
    BY <2>1 DEF Min
  <2>5. t = RemoveAt(s, k)
    BY <1>2, <2>3, <2>4 DEF RemoveFirst, SelectInSeq
  <2> DEFINE u == SubSeq(s, 1, k - 1)
             v == SubSeq(s, k + 1, Len(s))
  <2>6. /\ u \in Seq(S) /\ Len(u) = k - 1
        /\ \A i \in 1..(k - 1) : u[i] = s[i]
    BY <1>0, <2>1, SubSeqProperties
  <2>7. /\ v \in Seq(S) /\ Len(v) = Len(s) - k
        /\ \A i \in 1..(Len(s) - k) : v[i] = s[i + k]
    <3>1. /\ k + 1 \in 1..(Len(s) + 1) /\ Len(s) \in k..Len(s)
          /\ \A i \in (k + 1)..Len(s) : s[i] \in S
      BY <1>0, <2>1
    <3>2. /\ v \in Seq(S)
          /\ Len(v) = IF k + 1 <= Len(s) THEN Len(s) - (k + 1) + 1 ELSE 0
          /\ \A i \in 1..(Len(s) - (k + 1) + 1) : v[i] = s[(k + 1) + i - 1]
      BY <1>0, <2>1, <3>1, SubSeqProperties
    <3> HIDE DEF v
    <3>3. Len(v) = Len(s) - k
      <4>0. k \in Int /\ Len(s) \in Int /\ k <= Len(s)
        BY <1>0, <2>1
      <4>1. CASE k + 1 <= Len(s)
        BY <1>0, <2>1, <3>2, <4>1
      <4>2. CASE k = Len(s)
        BY <1>0, <2>1, <3>2, <4>2
      <4> QED
        BY <4>0, <4>1, <4>2
    <3>4. ASSUME NEW i \in 1..(Len(s) - k) PROVE v[i] = s[i + k]
      <4>1. i \in 1..(Len(s) - (k + 1) + 1) /\ (k + 1) + i - 1 = i + k
        BY <1>0, <2>1
      <4> QED
        BY <3>2, <4>1
    <3> QED
      BY <3>2, <3>3, <3>4
  <2>8. t = u \o v
    BY <2>5 DEF RemoveAt
  <2> HIDE DEF t, u, v
  <2>9. /\ t \in Seq(S) /\ Len(t) = Len(s) - 1
        /\ \A i \in 1..(Len(s) - 1) : t[i] = IF i <= k - 1 THEN u[i] ELSE v[i - (k - 1)]
    <3>1. /\ u \o v \in Seq(S) /\ Len(u \o v) = Len(u) + Len(v)
          /\ \A i \in 1..(Len(u) + Len(v)) :
               (u \o v)[i] = IF i <= Len(u) THEN u[i] ELSE v[i - Len(u)]
      BY <2>6, <2>7, ConcatProperties
    <3>2. Len(u) + Len(v) = Len(s) - 1
      BY <1>0, <2>1, <2>6, <2>7
    <3> QED
      BY <2>6, <2>8, <3>1, <3>2
  <2>10. \A i \in 1..(Len(s) - 1) : t[i] = IF i < k THEN s[i] ELSE s[i + 1]
    BY <1>0, <2>1, <2>6, <2>7, <2>9
  <2>11. DOMAIN t = 1..(Len(s) - 1)
    BY <1>0, <2>9
  <2>12. IsInjective(t)
    <3>1. ASSUME NEW a \in 1..(Len(s) - 1)
          PROVE  \E c \in 1..Len(s) : t[a] = s[c] /\ c = (IF a < k THEN a ELSE a + 1)
      <4>1. a \in 1..Len(s) /\ a + 1 \in 1..Len(s)
        BY <1>0, <3>1
      <4> QED
        BY <2>10, <4>1
    <3>2. ASSUME NEW a \in 1..(Len(s) - 1), NEW b \in 1..(Len(s) - 1), t[a] = t[b]
          PROVE  a = b
      <4>1. PICK c \in 1..Len(s) : t[a] = s[c] /\ c = (IF a < k THEN a ELSE a + 1)
        BY <3>1
      <4>2. PICK d \in 1..Len(s) : t[b] = s[d] /\ d = (IF b < k THEN b ELSE b + 1)
        BY <3>1
      <4>3. c = d
        BY <1>0, <3>2, <4>1, <4>2 DEF IsInjective
      <4>4. a \in Int /\ b \in Int /\ k \in Int
        BY <1>0, <2>1
      <4> QED
        BY <4>1, <4>2, <4>3, <4>4
    <3> QED
      BY <2>11, <3>2 DEF IsInjective
  <2>13. ASSUME NEW i \in 1..Len(t)
         PROVE  t[i] # x /\ \E j \in 1..Len(s) : s[j] = t[i]
    <3>1. PICK j \in 1..Len(s) : t[i] = s[j] /\ j # k
      <4>1. i \in 1..Len(s) /\ i + 1 \in 1..Len(s) /\ i \in 1..(Len(s) - 1)
        BY <1>0, <2>9, <2>13
      <4>2. CASE i < k
        BY <2>10, <4>1, <4>2
      <4>3. CASE ~(i < k)
        <5>1. i + 1 # k
          BY <2>1, <4>1, <4>3
        <5> QED
          BY <2>10, <4>1, <4>3, <5>1
      <4> QED
        BY <4>2, <4>3
    <3> QED
      BY <2>2, <3>1
  <2>14. ASSUME NEW j \in 1..Len(s), s[j] # x
         PROVE  \E i \in 1..Len(t) : t[i] = s[j]
    <3>1. CASE j < k
      <4>1. j \in 1..(Len(s) - 1)
        BY <1>0, <2>1, <3>1
      <4>2. j \in 1..Len(t) /\ t[j] = s[j]
        BY <2>9, <2>10, <3>1, <4>1
      <4> QED
        BY <4>2
    <3>2. CASE j > k
      <4>1. j - 1 \in 1..Len(t) /\ t[j - 1] = s[j]
        BY <1>0, <2>1, <2>9, <2>10, <3>2
      <4> QED
        BY <4>1
    <3> QED
      BY <2>1, <2>14, <3>1, <3>2
  <2>15. ASSUME s # << >>, s[1] # x PROVE t # << >> /\ t[1] = s[1]
    <3>1. k > 1
      BY <2>1, <2>15
    <3>2. t[1] = s[1] /\ Len(t) >= 1
      BY <1>0, <2>1, <2>9, <2>10, <3>1
    <3> QED
      BY <3>2, EmptySeq
  <2> QED
    BY <2>9, <2>12, <2>13, <2>14, <2>15 DEF t
<1> QED
  BY <1>1, <1>2

-----------------------------------------------------------------------------
QueueTypes ==
  /\ queue \in [Locks -> Seq(Requests)]
  /\ \A k \in Locks : /\ IsInjective(queue[k])
                      /\ \A i \in 1..Len(queue[k]) :
                           /\ request[queue[k][i]] # Nothing
                           /\ LockOf(request[queue[k][i]].op) = k

LEMMA Locked == \A op : LockOf(op) \in Locks
BY DEF LockOf, Locks

(* A request leaves, with its place in the queue or with the lock.           *)
LEMMA Leaving ==
  ASSUME TypeInv, NEW q \in Requests, request[q] # Nothing,
         request'[q] = Nothing,
         \A r \in Requests : r # q /\ request[r] # Nothing =>
           /\ request'[r].op = request[r].op /\ request'[r].pc = request[r].pc,
         \A r \in Requests : r # q => (request'[r] = Nothing <=> request[r] = Nothing),
         queue' = Released(q, LockOf(request[q].op))
  PROVE  QueueTypes' /\ Queued' /\ HeadWrites'
<1> DEFINE k == LockOf(request[q].op)
           s == queue[k]
           t == RemoveFirst(s, q)
<1>1. k \in Locks /\ s \in Seq(Requests) /\ IsInjective(s)
  BY Locked DEF TypeInv, TypeOK
<1>2. queue' = [queue EXCEPT ![k] = t]
  BY DEF Released
<1>0. s = queue[k]
  OBVIOUS
<1> HIDE DEF k, s
<1>3. /\ t \in Seq(Requests)
      /\ IsInjective(t)
      /\ \A i \in 1..Len(t) : t[i] # q /\ \E j \in 1..Len(s) : s[j] = t[i]
      /\ \A j \in 1..Len(s) : s[j] # q => \E i \in 1..Len(t) : t[i] = s[j]
      /\ s # << >> /\ s[1] # q => t # << >> /\ t[1] = s[1]
  BY <1>1, RemoveFirstProperties
<1> HIDE DEF t
<1>4. /\ queue' \in [Locks -> Seq(Requests)] /\ queue'[k] = t
      /\ \A l \in Locks : l # k => queue'[l] = queue[l]
  BY <1>1, <1>2, <1>3 DEF TypeInv, TypeOK
<1>5. \A l \in Locks : \A i \in 1..Len(queue[l]) :
        /\ queue[l][i] \in Requests
        /\ request[queue[l][i]] # Nothing /\ LockOf(request[queue[l][i]].op) = l
  BY DEF TypeInv, TypeOK
<1>6. \A l \in Locks : \A i \in 1..Len(queue'[l]) :
        /\ queue'[l][i] \in Requests /\ queue'[l][i] # q
        /\ request[queue'[l][i]] # Nothing /\ LockOf(request[queue'[l][i]].op) = l
  <2>1. ASSUME NEW i \in 1..Len(t)
        PROVE  /\ t[i] \in Requests /\ t[i] # q
               /\ request[t[i]] # Nothing /\ LockOf(request[t[i]].op) = k
    <3>1. PICK j \in 1..Len(s) : s[j] = t[i]
      BY <1>3
    <3>2. /\ s[j] \in Requests /\ request[s[j]] # Nothing
          /\ LockOf(request[s[j]].op) = k
      BY <1>0, <1>1, <1>5
    <3> QED
      BY <1>3, <3>1, <3>2
  <2>2. ASSUME NEW l \in Locks, l # k, NEW i \in 1..Len(queue[l])
        PROVE  queue[l][i] # q
    BY <1>5, <2>2 DEF k
  <2>3. ASSUME NEW l \in Locks, NEW i \in 1..Len(queue'[l])
        PROVE  /\ queue'[l][i] \in Requests /\ queue'[l][i] # q
               /\ request[queue'[l][i]] # Nothing /\ LockOf(request[queue'[l][i]].op) = l
    <3>1. CASE l = k
      BY <1>4, <2>1, <2>3, <3>1
    <3>2. CASE l # k
      BY <1>4, <1>5, <2>2, <2>3, <3>2
    <3> QED
      BY <3>1, <3>2
  <2> QED
    BY <2>3
<1>7. QueueTypes'
  <2>1. \A l \in Locks : IsInjective(queue'[l])
    BY <1>3, <1>4 DEF TypeInv, TypeOK
  <2> QED
    BY <1>4, <1>6, <2>1 DEF QueueTypes
<1>8. ASSUME NEW r \in Requests, r # q, request[r] # Nothing
      PROVE  InQueue(r)' <=> InQueue(r)
  <2> DEFINE l == LockOf(request[r].op)
  <2>1. l \in Locks /\ LockOf(request'[r].op) = l
    BY <1>8, Locked
  <2>2. CASE l # k
    BY <1>4, <2>1, <2>2 DEF InQueue
  <2>3. CASE l = k
    <3>1. (\E i \in 1..Len(s) : s[i] = r) <=> (\E i \in 1..Len(t) : t[i] = r)
      BY <1>3, <1>8
    <3> QED
      BY <1>0, <1>4, <2>1, <2>3, <3>1 DEF InQueue
  <2> QED
    BY <2>2, <2>3
<1>9. Queued'
  BY <1>8 DEF Queued, TypeInv
<1>10. HeadWrites'
  <2> SUFFICES ASSUME NEW r \in Requests, request'[r] # Nothing, request'[r].pc = "write"
               PROVE  /\ request'[r].op # "login"
                      /\ queue'[LockOf(request'[r].op)] # << >>
                      /\ queue'[LockOf(request'[r].op)][1] = r
    BY DEF HeadWrites
  <2> DEFINE l == LockOf(request[r].op)
  <2>1. /\ r # q /\ l \in Locks /\ LockOf(request'[r].op) = l
        /\ request'[r].op # "login" /\ queue[l] # << >> /\ queue[l][1] = r
    BY Locked DEF HeadWrites, TypeInv
  <2>2. CASE l # k
    BY <1>4, <2>1, <2>2
  <2>3. CASE l = k
    BY <1>0, <1>3, <1>4, <2>1, <2>3
  <2> QED
    BY <2>2, <2>3
<1> QED
  BY <1>7, <1>9, <1>10

(* A request for a lock joins the end of its queue.                          *)
LEMMA Joining ==
  ASSUME TypeInv, NEW q \in Requests, request[q] = Nothing,
         NEW act \in Activity, act.op # "login", act.pc = "queue",
         request' = [request EXCEPT ![q] = act],
         queue' = [queue EXCEPT ![LockOf(act.op)] = Append(@, q)]
  PROVE  QueueTypes' /\ Queued' /\ HeadWrites'
<1> DEFINE k == LockOf(act.op)
           s == queue[k]
           t == Append(s, q)
<1>1. /\ request'[q] = act /\ act # Nothing
      /\ \A r \in Requests : r # q => request'[r] = request[r]
  BY NothingAssumption DEF TypeInv, TypeOK
<1>2. k \in Locks /\ s \in Seq(Requests) /\ IsInjective(s)
  BY Locked DEF TypeInv, TypeOK
<1>0. s = queue[k]
  OBVIOUS
<1>3. \A l \in Locks : \A i \in 1..Len(queue[l]) :
        /\ queue[l][i] \in Requests /\ queue[l][i] # q
        /\ request[queue[l][i]] # Nothing /\ LockOf(request[queue[l][i]].op) = l
  BY DEF TypeInv, TypeOK
<1>4. /\ queue' = [queue EXCEPT ![k] = t]
      /\ k = LockOf(act.op)
  OBVIOUS
<1> HIDE DEF k, s
<1>5. /\ t \in Seq(Requests) /\ Len(s) \in Nat /\ Len(t) = Len(s) + 1
      /\ t # << >> /\ t[Len(s) + 1] = q
      /\ \A i \in 1..Len(s) : t[i] = s[i]
  BY <1>2, AppendProperties
<1> HIDE DEF t
<1>6. /\ queue' \in [Locks -> Seq(Requests)] /\ queue'[k] = t
      /\ \A l \in Locks : l # k => queue'[l] = queue[l]
  BY <1>2, <1>4, <1>5 DEF TypeInv, TypeOK
<1>7. IsInjective(t)
  <2>1. DOMAIN s = 1..Len(s) /\ DOMAIN t = 1..(Len(s) + 1)
    BY <1>2, <1>5
  <2>2. \A i \in 1..Len(s) : s[i] # q
    BY <1>0, <1>2, <1>3
  <2> QED
    BY <1>2, <1>5, <2>1, <2>2 DEF IsInjective
<1>8. QueueTypes'
  <2>1. ASSUME NEW i \in 1..Len(t)
        PROVE  request'[t[i]] # Nothing /\ LockOf(request'[t[i]].op) = k
    <3>1. CASE i = Len(s) + 1
      BY <1>1, <1>4, <1>5, <3>1
    <3>2. CASE i \in 1..Len(s)
      BY <1>0, <1>1, <1>2, <1>3, <1>5, <3>2
    <3> QED
      BY <1>5, <2>1, <3>1, <3>2
  <2>2. \A l \in Locks : l # k => \A i \in 1..Len(queue'[l]) :
          request'[queue'[l][i]] # Nothing /\ LockOf(request'[queue'[l][i]].op) = l
    BY <1>1, <1>3, <1>6
  <2>3. \A l \in Locks : IsInjective(queue'[l])
    BY <1>6, <1>7 DEF TypeInv, TypeOK
  <2> QED
    BY <1>6, <2>1, <2>2, <2>3 DEF QueueTypes
<1>9. InQueue(q)'
  BY <1>1, <1>4, <1>5, <1>6 DEF InQueue
<1>10. ASSUME NEW r \in Requests, r # q, request[r] # Nothing
       PROVE  InQueue(r)' <=> InQueue(r)
  <2> DEFINE l == LockOf(request[r].op)
  <2>1. l \in Locks /\ LockOf(request'[r].op) = l
    BY <1>1, <1>10, Locked
  <2>2. CASE l # k
    BY <1>6, <2>1, <2>2 DEF InQueue
  <2>3. CASE l = k
    <3>1. (\E i \in 1..Len(s) : s[i] = r) <=> (\E i \in 1..Len(t) : t[i] = r)
      BY <1>5, <1>10
    <3> QED
      BY <1>0, <1>6, <2>1, <2>3, <3>1 DEF InQueue
  <2> QED
    BY <2>2, <2>3
<1>11. Queued'
  BY <1>1, <1>9, <1>10 DEF Queued, TypeInv
<1>12. HeadWrites'
  <2> SUFFICES ASSUME NEW r \in Requests, request'[r] # Nothing, request'[r].pc = "write"
               PROVE  /\ request'[r].op # "login"
                      /\ queue'[LockOf(request'[r].op)] # << >>
                      /\ queue'[LockOf(request'[r].op)][1] = r
    BY DEF HeadWrites
  <2> DEFINE l == LockOf(request[r].op)
  <2>1. /\ r # q /\ l \in Locks /\ LockOf(request'[r].op) = l
        /\ request'[r].op # "login" /\ queue[l] # << >> /\ queue[l][1] = r
    BY <1>1, Locked DEF HeadWrites, TypeInv
  <2>2. CASE l # k
    BY <1>6, <2>1, <2>2
  <2>3. CASE l = k
    <3>1. 1 \in 1..Len(s)
      BY <1>0, <1>2, <2>1, <2>3, EmptySeq
    <3> QED
      BY <1>0, <1>5, <1>6, <2>1, <2>3, <3>1
  <2> QED
    BY <2>2, <2>3
<1> QED
  BY <1>8, <1>11, <1>12

(* No queue moves.  The request that does was not in one before and is not   *)
(* afterwards: it logs in.                                                   *)
LEMMA LoggingIn ==
  ASSUME TypeInv, NEW q \in Requests, UNCHANGED queue,
         request[q] = Nothing \/ request[q].op = "login",
         request'[q] = Nothing \/ (request'[q].op = "login" /\ request'[q].pc = "queue"),
         request'[q] = Nothing \/ request[q] = Nothing,
         \A r \in Requests : r # q => request'[r] = request[r]
  PROVE  QueueTypes' /\ Queued' /\ HeadWrites'
<1>1. \A l \in Locks : \A i \in 1..Len(queue[l]) :
        /\ queue[l][i] \in Requests /\ request[queue[l][i]] # Nothing
        /\ LockOf(request[queue[l][i]].op) = l
  BY DEF TypeInv, TypeOK
<1>2. \A l \in Locks : \A i \in 1..Len(queue[l]) : queue[l][i] # q
  BY <1>1 DEF TypeInv, Queued, InQueue
<1>3. QueueTypes'
  <2>1. \A l \in Locks : \A i \in 1..Len(queue[l]) :
          request'[queue[l][i]] # Nothing /\ LockOf(request'[queue[l][i]].op) = l
    BY <1>1, <1>2
  <2> QED
    BY <2>1 DEF QueueTypes, TypeInv, TypeOK
<1>4. Queued'
  <2>1. ASSUME NEW r \in Requests, request'[r] # Nothing
        PROVE  request'[r].op # "login" <=>
                 \E i \in 1..Len(queue[LockOf(request'[r].op)]) :
                   queue[LockOf(request'[r].op)][i] = r
    <3>1. CASE r # q
      BY <2>1, <3>1 DEF TypeInv, Queued, InQueue
    <3>2. CASE r = q
      BY <1>2, <2>1, <3>2, Locked
    <3> QED
      BY <3>1, <3>2
  <2> QED
    BY <2>1 DEF Queued, InQueue
<1>5. HeadWrites'
  BY DEF HeadWrites, TypeInv
<1> QED
  BY <1>3, <1>4, <1>5

(* The head of a queue goes on to its write.                                 *)
LEMMA GoingOn ==
  ASSUME TypeInv, NEW q \in Requests, NEW op \in Ops, op # "login",
         Holds(q, op, "queue"), Goes(q, "write")
  PROVE  /\ request' \in [Requests -> Activity \cup {Nothing}]
         /\ request'[q] = [request[q] EXCEPT !.pc = "write"]
         /\ request'[q] # Nothing
         /\ \A r \in Requests : r # q => request'[r] = request[r]
         /\ QueueTypes' /\ Queued' /\ HeadWrites'
<1> DEFINE act == [request[q] EXCEPT !.pc = "write"]
           s == queue[LockOf(op)]
<1>1. request[q] \in Activity /\ request[q] # Nothing /\ request[q].op = op
      /\ Head(s) = q
  BY DEF Holds, TypeInv, TypeOK
<1>2. act \in Activity /\ act.op = op /\ act.pc = "write" /\ act # Nothing
  <2>1. act \in Activity /\ act.op = op /\ act.pc = "write"
    BY <1>1 DEF Activity
  <2> QED
    BY <2>1, NothingAssumption
<1>3. request' = [request EXCEPT ![q] = act] /\ queue' = queue
  BY DEF Goes
<1>4. s \in Seq(Requests) /\ \E i \in 1..Len(s) : s[i] = q
  BY <1>1, Locked DEF TypeInv, TypeOK, Queued, InQueue
<1>5. s # << >> /\ s[1] = q
  BY <1>1, <1>4
<1> HIDE DEF act
<1>6. /\ request' \in [Requests -> Activity \cup {Nothing}] /\ request'[q] = act
      /\ \A r \in Requests : r # q => request'[r] = request[r]
  BY <1>2, <1>3 DEF TypeInv, TypeOK
<1>7. \A r \in Requests : /\ request'[r] = Nothing <=> request[r] = Nothing
                          /\ request[r] # Nothing => request'[r].op = request[r].op
  BY <1>1, <1>2, <1>6
<1>8. QueueTypes'
  <2>1. \A l \in Locks : \A i \in 1..Len(queue[l]) :
          /\ queue[l][i] \in Requests /\ request[queue[l][i]] # Nothing
          /\ LockOf(request[queue[l][i]].op) = l
    BY DEF TypeInv, TypeOK
  <2> QED
    BY <1>3, <1>7, <2>1 DEF QueueTypes, TypeInv, TypeOK
<1>9. Queued'
  <2>1. ASSUME NEW r \in Requests, request[r] # Nothing
        PROVE  InQueue(r)' <=> InQueue(r)
    <3>1. request'[r].op = request[r].op
      BY <1>7, <2>1
    <3> QED
      BY <1>3, <3>1 DEF InQueue
  <2> QED
    BY <1>7, <2>1 DEF Queued, TypeInv
<1>10. HeadWrites'
  BY <1>1, <1>2, <1>3, <1>5, <1>6, <1>7 DEF HeadWrites, TypeInv
<1> QED
  BY <1>2, <1>6, <1>8, <1>9, <1>10 DEF act

-----------------------------------------------------------------------------
(* The rows of the accounts.                                                 *)
AccountTypes ==
  /\ account \in [Users -> Account \cup {Nothing}]
  /\ \A u \in Users : Exists(u) => account[u].roles # {}

CountTypes == epoch \in [Users -> Nat] /\ lag \in [Users -> Int]

LEMMA RowIsReplaced ==
  ASSUME TypeInv, NEW u \in Users, NEW row \in Account, row.roles # {},
         account' = [account EXCEPT ![u] = row]
  PROVE  /\ AccountTypes' /\ account'[u] = row /\ row # Nothing
         /\ \A v \in Users : v # u => account'[v] = account[v]
         /\ \A v \in Users : Exists(v) => Exists(v)'
<1>1. /\ row # Nothing /\ account' \in [Users -> Account \cup {Nothing}]
      /\ account'[u] = row /\ \A v \in Users : v # u => account'[v] = account[v]
  BY NothingAssumption DEF TypeInv, TypeOK
<1> QED
  BY <1>1 DEF AccountTypes, Exists, TypeInv, TypeOK

LEMMA RolesAreTyped ==
  ASSUME TypeInv, NEW u \in Users, Exists(u)
  PROVE  account[u] \in Account /\ account[u].roles # {}
BY DEF TypeInv, TypeOK, Exists

LEMMA Activates ==
  ASSUME TypeInv, NEW q \in Requests, WriteActive(q)
  PROVE  LET u == request[q].target IN
         /\ u \in Users /\ Exists(u)
         /\ AccountTypes' /\ account'[u] # Nothing
         /\ account'[u].active = request[q].active
         /\ account'[u].roles = account[u].roles
         /\ \A v \in Users : v # u => account'[v] = account[v]
         /\ \A v \in Users : Exists(v) => Exists(v)'
<1> DEFINE u == request[q].target
           row == [account[u] EXCEPT !.active = request[q].active]
<1>1. u \in Users /\ Exists(u) /\ request[q] \in Activity
  BY DEF WriteActive, Holds, TypeInv, TypeOK, Carries, Activity
<1>2. account[u] \in Account /\ account[u].roles # {}
  BY <1>1, RolesAreTyped
<1>3. account' = [account EXCEPT ![u] = row]
  BY DEF WriteActive
<1>4. request[q].active \in BOOLEAN
  BY <1>1 DEF Activity
<1> HIDE DEF u
<1>5. row \in Account /\ row.roles = account[u].roles
  BY <1>2, <1>4 DEF Account
<1>6. row.active = request[q].active
  BY <1>2, <1>4 DEF Account
<1> HIDE DEF row
<1>7. row.roles # {}
  BY <1>2, <1>5
<1>8. /\ AccountTypes' /\ account'[u] = row /\ row # Nothing
      /\ \A v \in Users : v # u => account'[v] = account[v]
      /\ \A v \in Users : Exists(v) => Exists(v)'
  BY <1>1, <1>3, <1>5, <1>7, RowIsReplaced
<1> QED
  BY <1>1, <1>5, <1>6, <1>8 DEF u

Kept(q) ==
  IF request[q].overtaken /\ request[q].target = request[q].actor
  THEN account[request[q].target].roles ELSE {}

Collides(q) == Kept(q) \cap request[q].roles # {}

LEMMA AssignsRoles ==
  ASSUME TypeInv, NEW q \in Requests, WriteRoles(q), ~Collides(q)
  PROVE  LET u == request[q].target IN
         /\ u \in Users /\ Exists(u)
         /\ AccountTypes' /\ account'[u] # Nothing
         /\ account'[u].active = account[u].active
         /\ account'[u].roles = Kept(q) \cup request[q].roles
         /\ \A v \in Users : v # u => account'[v] = account[v]
         /\ \A v \in Users : Exists(v) => Exists(v)'
<1> DEFINE u == request[q].target
           roles == Kept(q) \cup request[q].roles
           row == [account[u] EXCEPT !.roles = roles]
<1>1. /\ u \in Users /\ Exists(u) /\ request[q] \in Activity
      /\ request[q].roles # {}
  BY DEF WriteRoles, Holds, TypeInv, TypeOK, Carries, Activity
<1>2. account[u] \in Account /\ account[u].roles # {}
  BY <1>1, RolesAreTyped
<1>3. account' = [account EXCEPT ![u] = row]
  BY DEF WriteRoles, Collides, Kept
<1>4. roles \in SUBSET Roles /\ roles # {}
  BY <1>1, <1>2 DEF Activity, Account, Kept
<1> HIDE DEF u, roles
<1>5. row \in Account /\ row.roles = roles /\ row.active = account[u].active
  BY <1>2, <1>4 DEF Account
<1> HIDE DEF row
<1> QED
  BY <1>1, <1>3, <1>4, <1>5, RowIsReplaced DEF u, roles

LEMMA Replaces ==
  ASSUME TypeInv, NEW q \in Requests, NEW u \in Users, Exists(u),
         request[q].new \in Passwords,
         NEW must \in BOOLEAN, NEW version \in Nat, NEW behind \in Int,
         Replace(q, u, must, version, behind)
  PROVE  /\ AccountTypes' /\ account'[u] # Nothing
         /\ account'[u].active = account[u].active
         /\ account'[u].roles = account[u].roles
         /\ \A v \in Users : v # u => account'[v] = account[v]
         /\ \A v \in Users : Exists(v) => Exists(v)'
         /\ CountTypes'
<1> DEFINE row == [account[u] EXCEPT !.password = request[q].new, !.must = must,
                                     !.version = version]
<1>1. account[u] \in Account /\ account[u].roles # {}
  BY RolesAreTyped
<1>2. account' = [account EXCEPT ![u] = row]
  BY <1>1 DEF Replace, TypeInv, TypeOK
<1>3. /\ row \in Account /\ row.roles = account[u].roles
      /\ row.active = account[u].active
  BY <1>1 DEF Account
<1> HIDE DEF row
<1>4. CountTypes'
  BY DEF CountTypes, Replace, TypeInv, TypeOK
<1> QED
  BY <1>1, <1>2, <1>3, <1>4, RowIsReplaced

LEMMA Registers ==
  ASSUME TypeInv, NEW u \in Users, NEW p \in Chosen, SignUp(u, p)
  PROVE  /\ AccountTypes' /\ ~Exists(u)
         /\ \A v \in Users : v # u => account'[v] = account[v]
         /\ \A v \in Users : Exists(v) => Exists(v)'
<1> DEFINE row == Registered({"OPERATOR"}, p)
<1>1. row \in Account /\ row.roles # {}
  BY RolesAssumption DEF Registered, Account, Passwords
<1>2. account' = [account EXCEPT ![u] = row] /\ ~Exists(u)
  BY DEF SignUp
<1> HIDE DEF row
<1> QED
  BY <1>1, <1>2, RowIsReplaced

-----------------------------------------------------------------------------
(* TypeInv again, in the parts that the steps disturb.                       *)
LEMMA Parts ==
  ASSUME AccountTypes', QueueTypes', Queued', HeadWrites',
         CountTypes',
         token' \in [Sessions -> Token \cup {Nothing}], TokensHaveUsers',
         revoked' \subseteq Sessions,
         request' \in [Requests -> Activity \cup {Nothing}],
         \A r \in Requests : Carries(r)'
  PROVE  TypeInv'
BY DEF CountTypes, AccountTypes, QueueTypes, TypeInv, TypeOK

LEMMA StillCarries ==
  ASSUME TypeInv, NEW r \in Requests, \A u \in Users : Exists(u) => Exists(u)',
         request'[r] # Nothing =>
           /\ request[r] # Nothing
           /\ request'[r].op = request[r].op /\ request'[r].roles = request[r].roles
           /\ request'[r].new = request[r].new
           /\ request'[r].actor = request[r].actor
           /\ request'[r].target = request[r].target
  PROVE  Carries(r)'
<1> SUFFICES ASSUME request'[r] # Nothing PROVE Carries(r)'
  BY DEF Carries
<1>1. Carries(r) /\ request[r] \in Activity
  BY DEF TypeInv, TypeOK
<1>2. request[r].actor \in Users /\ request[r].target \in Users
  BY <1>1 DEF Activity
<1> QED
  BY <1>1, <1>2 DEF Carries, Exists

(* The tokens are as they were, and so are their accounts.                   *)
LEMMA SameTokens ==
  ASSUME TypeInv, UNCHANGED token, \A u \in Users : Exists(u) => Exists(u)'
  PROVE  TokensHaveUsers' /\ token' \in [Sessions -> Token \cup {Nothing}]
<1>1. \A s \in Sessions : token[s] # Nothing => token[s].user \in Users
  BY DEF TypeInv, TypeOK, Token
<1> QED
  BY <1>1 DEF TypeInv, TypeOK, TokensHaveUsers, Exists

(* A request ends.                                                           *)
LEMMA Ending ==
  ASSUME TypeInv, NEW q \in Requests, request[q] # Nothing, request' = Done(q),
         queue' = Released(q, LockOf(request[q].op)),
         \A u \in Users : Exists(u) => Exists(u)'
  PROVE  /\ QueueTypes' /\ Queued' /\ HeadWrites'
         /\ request' \in [Requests -> Activity \cup {Nothing}]
         /\ \A r \in Requests : Carries(r)'
<1>1. /\ request' \in [Requests -> Activity \cup {Nothing}]
      /\ request'[q] = Nothing
      /\ \A r \in Requests : r # q => request'[r] = request[r]
  BY DEF Done, TypeInv, TypeOK
<1>2. QueueTypes' /\ Queued' /\ HeadWrites'
  BY <1>1, Leaving
<1>3. \A r \in Requests : Carries(r)'
  BY <1>1, StillCarries
<1> QED
  BY <1>1, <1>2, <1>3

LEMMA Refusing ==
  ASSUME TypeInv, NEW q \in Requests, request[q] # Nothing, Refuse(q)
  PROVE  TypeInv'
<1>1. UNCHANGED <<account, epoch, lag, token, revoked>>
  BY DEF Refuse
<1>2. \A u \in Users : Exists(u) => Exists(u)'
  BY <1>1 DEF Exists
<1>3. /\ QueueTypes' /\ Queued' /\ HeadWrites'
      /\ request' \in [Requests -> Activity \cup {Nothing}]
      /\ \A r \in Requests : Carries(r)'
  BY <1>2, Ending DEF Refuse
<1>4. TokensHaveUsers' /\ token' \in [Sessions -> Token \cup {Nothing}]
  BY <1>1, <1>2, SameTokens
<1>5. AccountTypes' /\ CountTypes' /\ revoked' \subseteq Sessions
  BY <1>1 DEF CountTypes, AccountTypes, Exists, TypeInv, TypeOK
<1> QED
  BY <1>3, <1>4, <1>5, Parts

LEMMA Going ==
  ASSUME TypeInv, NEW q \in Requests, NEW op \in Ops, op # "login",
         Holds(q, op, "queue"), Goes(q, "write")
  PROVE  TypeInv'
<1>1. UNCHANGED <<account, epoch, lag, token, revoked>>
  BY DEF Goes
<1>2. \A u \in Users : Exists(u) => Exists(u)'
  BY <1>1 DEF Exists
<1>3. /\ request' \in [Requests -> Activity \cup {Nothing}]
      /\ request'[q] = [request[q] EXCEPT !.pc = "write"]
      /\ request'[q] # Nothing
      /\ \A r \in Requests : r # q => request'[r] = request[r]
      /\ QueueTypes' /\ Queued' /\ HeadWrites'
  BY GoingOn
<1>4. request[q] # Nothing /\ request[q] \in Activity
  BY DEF Holds, TypeInv, TypeOK
<1>5. \A r \in Requests : Carries(r)'
  <2>1. Carries(q)'
    <3>1. /\ request'[q].op = request[q].op /\ request'[q].roles = request[q].roles
          /\ request'[q].new = request[q].new
          /\ request'[q].actor = request[q].actor
          /\ request'[q].target = request[q].target
      BY <1>3, <1>4 DEF Activity
    <3> QED
      BY <1>2, <1>4, <3>1, StillCarries
  <2>2. \A r \in Requests : r # q => Carries(r)'
    BY <1>2, <1>3, StillCarries
  <2> QED
    BY <2>1, <2>2
<1>6. TokensHaveUsers' /\ token' \in [Sessions -> Token \cup {Nothing}]
  BY <1>1, <1>2, SameTokens
<1>7. AccountTypes' /\ CountTypes' /\ revoked' \subseteq Sessions
  BY <1>1 DEF CountTypes, AccountTypes, Exists, TypeInv, TypeOK
<1> QED
  BY <1>3, <1>5, <1>6, <1>7, Parts

(* Somebody who may act asks.                                                *)
LEMMA Asking ==
  ASSUME TypeInv, NEW q \in Requests, NEW wish \in Activity, Ask(q, wish),
         wish.op # "login", wish.pc = "queue", Exists(wish.actor),
         wish.op = "change" => wish.actor = wish.target,
         wish.op \in {"change", "reset"} => wish.new \in Passwords,
         wish.op = "roles" => wish.roles # {}
  PROVE  TypeInv'
<1>1. UNCHANGED <<account, epoch, lag, token, revoked>>
  BY DEF Ask
<1>2. \A u \in Users : Exists(u) => Exists(u)'
  BY <1>1 DEF Exists
<1>3. QueueTypes' /\ Queued' /\ HeadWrites'
  BY Joining DEF Ask
<1>4. /\ request' \in [Requests -> Activity \cup {Nothing}] /\ request'[q] = wish
      /\ \A r \in Requests : r # q => request'[r] = request[r]
  BY DEF Ask, TypeInv, TypeOK
<1>5. \A r \in Requests : Carries(r)'
  <2>1. Carries(q)'
    <3>1. account'[wish.target] # Nothing /\ account'[wish.actor] # Nothing
      BY <1>1 DEF Ask, Exists
    <3> QED
      BY <1>4, <3>1 DEF Carries, Exists
  <2>2. \A r \in Requests : r # q => Carries(r)'
    BY <1>2, <1>4, StillCarries
  <2> QED
    BY <2>1, <2>2
<1>6. TokensHaveUsers' /\ token' \in [Sessions -> Token \cup {Nothing}]
  BY <1>1, <1>2, SameTokens
<1>7. AccountTypes' /\ CountTypes' /\ revoked' \subseteq Sessions
  BY <1>1 DEF CountTypes, AccountTypes, Exists, TypeInv, TypeOK
<1> QED
  BY <1>3, <1>4, <1>5, <1>6, <1>7, Parts

(* The row of an account is written by the request that ends.                *)
LEMMA Writing ==
  ASSUME TypeInv, NEW q \in Requests, request[q] # Nothing, request' = Done(q),
         queue' = Released(q, LockOf(request[q].op)),
         AccountTypes', CountTypes', UNCHANGED <<token, revoked>>,
         \A u \in Users : Exists(u) => Exists(u)'
  PROVE  TypeInv'
<1>1. /\ QueueTypes' /\ Queued' /\ HeadWrites'
      /\ request' \in [Requests -> Activity \cup {Nothing}]
      /\ \A r \in Requests : Carries(r)'
  BY Ending
<1>2. TokensHaveUsers' /\ token' \in [Sessions -> Token \cup {Nothing}]
  BY SameTokens
<1>3. revoked' \subseteq Sessions
  BY DEF TypeInv, TypeOK
<1> QED
  BY <1>1, <1>2, <1>3, Parts

-----------------------------------------------------------------------------
LEMMA TypeInit == Init => TypeInv
<1> SUFFICES ASSUME Init PROVE TypeInv
  OBVIOUS
<1> DEFINE p == CHOOSE x \in Chosen : TRUE
           row == Registered({"ADMIN"}, p)
<1>1. p \in Chosen
  BY UsersAssumption
<1> HIDE DEF p
<1>2. row \in Account /\ row.roles # {}
  BY <1>1, RolesAssumption DEF Registered, Account, Passwords
<1>3. /\ account \in [Users -> Account \cup {Nothing}]
      /\ \A u \in Users : Exists(u) => account[u].roles # {}
  <2>1. account = [u \in Users |-> IF u = Founder THEN row ELSE Nothing]
    BY DEF Init, p
  <2> HIDE DEF row
  <2> QED
    BY <1>2, <2>1 DEF Exists
<1>4. queue = [k \in Locks |-> << >>] /\ request = [q \in Requests |-> Nothing]
  BY DEF Init
<1>5. TypeOK
  <2>1. queue \in [Locks -> Seq(Requests)]
    BY <1>4
  <2>2. \A k \in Locks : IsInjective(queue[k]) /\ 1..Len(queue[k]) = {}
    BY <1>4 DEF IsInjective
  <2> QED
    BY <1>3, <1>4, <2>1, <2>2 DEF Init, TypeOK
<1>6. Queued /\ HeadWrites /\ \A q \in Requests : Carries(q)
  BY <1>4 DEF Queued, HeadWrites, Carries
<1> QED
  BY <1>5, <1>6 DEF TypeInv, TokensHaveUsers, Init

(* The passwords that somebody can give.                                     *)
LEMMA KnownIsTyped ==
  ASSUME TypeInv, NEW u \in Users, Exists(u)
  PROVE  Known(u) \subseteq Passwords
<1>1. account[u].password \in Passwords
  BY RolesAreTyped DEF Account
<1>2. \A q \in Requests :
        request[q] # Nothing /\ request[q].op = "change" => request[q].new \in Passwords
  BY DEF TypeInv, Carries
<1> QED
  BY <1>1, <1>2 DEF Known

LEMMA Blanks ==
  ASSUME NEW u \in Users, NEW op \in Ops
  PROVE  Blank(u, op) \in Activity
BY DEF Blank, Activity

LEMMA SignsUp ==
  ASSUME TypeInv, NEW u \in Users, NEW p \in Chosen, SignUp(u, p)
  PROVE  TypeInv'
<1>1. AccountTypes' /\ \A v \in Users : Exists(v) => Exists(v)'
  BY Registers
<1>2. UNCHANGED <<epoch, lag, token, revoked, queue, request>>
  BY DEF SignUp
<1>3. TokensHaveUsers' /\ token' \in [Sessions -> Token \cup {Nothing}]
  BY <1>1, <1>2, SameTokens
<1>4. \A r \in Requests : Carries(r)'
  BY <1>1, <1>2, StillCarries
<1>5. QueueTypes' /\ Queued' /\ HeadWrites'
  BY <1>2 DEF QueueTypes, Queued, InQueue, HeadWrites, TypeInv, TypeOK
<1>6. /\ CountTypes' /\ revoked' \subseteq Sessions
      /\ request' \in [Requests -> Activity \cup {Nothing}]
  BY <1>2 DEF CountTypes, TypeInv, TypeOK
<1> QED
  BY <1>1, <1>3, <1>4, <1>5, <1>6, Parts

(* A token is given up or expires.                                           *)
LEMMA TokensGo ==
  ASSUME TypeInv, UNCHANGED <<account, epoch, lag, queue, request>>,
         revoked' \subseteq Sessions,
         NEW s \in Sessions, token' = token \/ token' = [token EXCEPT ![s] = Nothing]
  PROVE  TypeInv'
<1>1. \A u \in Users : Exists(u)' <=> Exists(u)
  BY DEF Exists
<1>2. token' \in [Sessions -> Token \cup {Nothing}] /\ TokensHaveUsers'
  BY DEF TypeInv, TypeOK, TokensHaveUsers, Exists
<1>3. \A r \in Requests : Carries(r)'
  BY <1>1, StillCarries
<1>4. QueueTypes' /\ Queued' /\ HeadWrites'
  BY DEF QueueTypes, Queued, InQueue, HeadWrites, TypeInv, TypeOK
<1>5. /\ AccountTypes' /\ CountTypes'
      /\ request' \in [Requests -> Activity \cup {Nothing}]
  BY DEF CountTypes, TypeInv, TypeOK, AccountTypes, Exists
<1> QED
  BY <1>2, <1>3, <1>4, <1>5, Parts

LEMMA LoginStarts ==
  ASSUME TypeInv, NEW q \in Requests, NEW u \in Users, Exists(u),
         NEW p \in Known(u), LoginLoads(q, u, p)
  PROVE  TypeInv'
<1> DEFINE b == Blank(u, "login")
           wish == [b EXCEPT !.current = p, !.version = account[u].version]
<1>1. UNCHANGED <<account, epoch, lag, token, revoked, queue>>
  BY DEF LoginLoads
<1>2. \A v \in Users : Exists(v) => Exists(v)'
  BY <1>1 DEF Exists
<1>3. wish \in Activity /\ wish.op = "login" /\ wish.pc = "queue"
      /\ wish.actor = u /\ wish.target = u
  <2>1. p \in Passwords /\ account[u].version \in Nat
    BY KnownIsTyped, RolesAreTyped DEF Account
  <2>2. b \in Activity /\ b.op = "login" /\ b.pc = "queue" /\ b.actor = u /\ b.target = u
    BY Blanks DEF Blank, Ops
  <2> HIDE DEF b
  <2> QED
    BY <2>1, <2>2 DEF Activity
<1>4. request' = [request EXCEPT ![q] = wish] /\ request[q] = Nothing
  BY DEF LoginLoads
<1> HIDE DEF wish
<1>5. /\ request' \in [Requests -> Activity \cup {Nothing}] /\ request'[q] = wish
      /\ \A r \in Requests : r # q => request'[r] = request[r]
  BY <1>3, <1>4 DEF TypeInv, TypeOK
<1>6. QueueTypes' /\ Queued' /\ HeadWrites'
  BY <1>1, <1>3, <1>4, <1>5, LoggingIn
<1>7. \A r \in Requests : Carries(r)'
  <2>1. Carries(q)'
    BY <1>1, <1>3, <1>5 DEF Carries, Exists
  <2>2. \A r \in Requests : r # q => Carries(r)'
    BY <1>2, <1>5, StillCarries
  <2> QED
    BY <2>1, <2>2
<1>8. TokensHaveUsers' /\ token' \in [Sessions -> Token \cup {Nothing}]
  BY <1>1, <1>2, SameTokens
<1>9. AccountTypes' /\ CountTypes' /\ revoked' \subseteq Sessions
  BY <1>1 DEF CountTypes, AccountTypes, Exists, TypeInv, TypeOK
<1> QED
  BY <1>5, <1>6, <1>7, <1>8, <1>9, Parts

LEMMA LoginEnds ==
  ASSUME TypeInv, NEW q \in Requests, LoginVerifies(q)
  PROVE  TypeInv'
<1>1. UNCHANGED <<account, epoch, lag, revoked, queue>> /\ request' = Done(q)
  BY DEF LoginVerifies
<1>2. \A v \in Users : Exists(v)' <=> Exists(v)
  BY <1>1 DEF Exists
<1>3. request[q] # Nothing /\ request[q].op = "login" /\ request[q] \in Activity
  BY DEF LoginVerifies, TypeInv, TypeOK
<1>4. /\ request' \in [Requests -> Activity \cup {Nothing}] /\ request'[q] = Nothing
      /\ \A r \in Requests : r # q => request'[r] = request[r]
  BY <1>1 DEF Done, TypeInv, TypeOK
<1>5. QueueTypes' /\ Queued' /\ HeadWrites'
  BY <1>1, <1>3, <1>4, LoggingIn
<1>6. \A r \in Requests : Carries(r)'
  BY <1>2, <1>4, StillCarries
<1>7. TokensHaveUsers' /\ token' \in [Sessions -> Token \cup {Nothing}]
  <2>1. CASE UNCHANGED token
    BY <1>2, <2>1, SameTokens
  <2>2. CASE /\ Unused # {}
             /\ token' = [token EXCEPT ![CHOOSE s \in Unused : TRUE] =
                           Issued(request[q].actor, request[q].version)]
    <3> DEFINE u == request[q].actor
               t == Issued(u, request[q].version)
    <3>1. PICK s \in Sessions : token' = [token EXCEPT ![s] = t]
      BY <2>2 DEF Unused
    <3>2. u \in Users /\ Exists(u) /\ request[q].version \in Nat
      BY <1>3 DEF Activity, TypeInv, Carries
    <3> HIDE DEF u
    <3>3. t \in Token /\ t.user = u
      BY <3>2 DEF Issued, Token, TypeInv, TypeOK
    <3> HIDE DEF t
    <3>4. /\ token' \in [Sessions -> Token \cup {Nothing}] /\ token'[s] = t
          /\ \A r \in Sessions : r # s => token'[r] = token[r]
      BY <3>1, <3>3 DEF TypeInv, TypeOK
    <3>5. ASSUME NEW r \in Sessions, token'[r] # Nothing
          PROVE  account'[token'[r].user] # Nothing
      <4>1. CASE r = s
        BY <1>1, <3>2, <3>3, <3>4, <4>1 DEF Exists
      <4>2. CASE r # s
        BY <1>1, <3>4, <3>5, <4>2 DEF Exists, TypeInv, TokensHaveUsers
      <4> QED
        BY <4>1, <4>2
    <3> QED
      BY <3>4, <3>5 DEF TokensHaveUsers, Exists
  <2> QED
    BY <2>1, <2>2 DEF LoginVerifies
<1>8. AccountTypes' /\ CountTypes' /\ revoked' \subseteq Sessions
  BY <1>1 DEF CountTypes, AccountTypes, Exists, TypeInv, TypeOK
<1> QED
  BY <1>4, <1>5, <1>6, <1>7, <1>8, Parts

LEMMA Asks ==
  ASSUME TypeInv, NEW q \in Requests, NEW u \in Users, Exists(u)
  PROVE  /\ \A v \in Users, b \in BOOLEAN : AskActive(q, u, v, b) => TypeInv'
         /\ \A v \in Users, roles \in SUBSET Roles : AskRoles(q, u, v, roles) => TypeInv'
         /\ \A v \in Users, t \in Temporary : AskReset(q, u, v, t) => TypeInv'
         /\ \A p \in Passwords, new \in Chosen : AskChange(q, u, p, new) => TypeInv'
<1>1. ASSUME NEW v \in Users, NEW b \in BOOLEAN, AskActive(q, u, v, b) PROVE TypeInv'
  <2> DEFINE wish == [Blank(u, "active") EXCEPT !.target = v, !.active = b]
  <2>1. Ask(q, wish)
    BY <1>1 DEF AskActive
  <2>2. /\ wish \in Activity /\ wish.op = "active" /\ wish.pc = "queue"
        /\ wish.actor = u
    BY DEF Blank, Activity, Ops
  <2> HIDE DEF wish
  <2> QED
    BY <2>1, <2>2, Asking
<1>2. ASSUME NEW v \in Users, NEW roles \in SUBSET Roles, AskRoles(q, u, v, roles)
      PROVE  TypeInv'
  <2> DEFINE wish == [Blank(u, "roles") EXCEPT !.target = v, !.roles = roles]
  <2>1. Ask(q, wish) /\ roles # {}
    BY <1>2 DEF AskRoles
  <2>2. /\ wish \in Activity /\ wish.op = "roles" /\ wish.pc = "queue"
        /\ wish.actor = u /\ wish.roles = roles
    BY DEF Blank, Activity, Ops
  <2> HIDE DEF wish
  <2> QED
    BY <2>1, <2>2, Asking
<1>3. ASSUME NEW v \in Users, NEW t \in Temporary, AskReset(q, u, v, t) PROVE TypeInv'
  <2> DEFINE wish == [Blank(u, "reset") EXCEPT !.target = v, !.new = t]
  <2>1. Ask(q, wish)
    BY <1>3 DEF AskReset
  <2>2. /\ wish \in Activity /\ wish.op = "reset" /\ wish.pc = "queue"
        /\ wish.actor = u /\ wish.new \in Passwords
    BY DEF Blank, Activity, Ops, Passwords
  <2> HIDE DEF wish
  <2> QED
    BY <2>1, <2>2, Asking
<1>4. ASSUME NEW p \in Passwords, NEW new \in Chosen, AskChange(q, u, p, new)
      PROVE  TypeInv'
  <2> DEFINE version == account[u].version
             must == account[u].must
             wish == [Blank(u, "change") EXCEPT !.current = p, !.new = new,
                        !.version = version, !.must = must]
  <2>1. Ask(q, wish)
    BY <1>4 DEF AskChange
  <2>2. version \in Nat /\ must \in BOOLEAN
    BY RolesAreTyped DEF Account
  <2> HIDE DEF version, must
  <2>3. /\ wish \in Activity /\ wish.op = "change" /\ wish.pc = "queue"
        /\ wish.actor = u /\ wish.target = u /\ wish.new \in Passwords
    BY <2>2 DEF Blank, Activity, Ops, Passwords
  <2> HIDE DEF wish
  <2> QED
    BY <2>1, <2>3, Asking
<1> QED
  BY <1>1, <1>2, <1>3, <1>4

(* The other requests learn that the rows they hold have been replaced.      *)
LEMMA Overtaking ==
  ASSUME TypeInv, NEW q \in Requests, WriteRoles(q), ~Collides(q)
  PROVE  /\ request'[q] = Nothing
         /\ \A r \in Requests : request[r] = Nothing => request'[r] = Nothing
         /\ request' \in [Requests -> Activity \cup {Nothing}]
         /\ \A r \in Requests : r # q /\ request[r] # Nothing =>
              /\ request'[r] # Nothing
              /\ request'[r].op = request[r].op /\ request'[r].pc = request[r].pc
              /\ request'[r].roles = request[r].roles
              /\ request'[r].current = request[r].current
              /\ request'[r].new = request[r].new
              /\ request'[r].version = request[r].version
              /\ request'[r].must = request[r].must
              /\ request'[r].actor = request[r].actor
              /\ request'[r].target = request[r].target
              /\ request'[r].active = request[r].active
<1>1. request' = [r \in Requests |->
           IF r = q \/ request[r] = Nothing THEN Nothing
           ELSE [request[r] EXCEPT
                   !.overtaken = @ \/ (/\ request[r].op = "roles"
                                       /\ request[r].actor = request[q].target
                                       /\ request[r].target = request[q].target)]]
  BY DEF WriteRoles, Collides, Kept
<1>2. request[q] # Nothing
  BY DEF WriteRoles, Holds
<1>3. ASSUME NEW r \in Requests, r # q, request[r] # Nothing
      PROVE  /\ request'[r] \in Activity /\ request'[r] # Nothing
             /\ request'[r].op = request[r].op /\ request'[r].pc = request[r].pc
             /\ request'[r].roles = request[r].roles
             /\ request'[r].current = request[r].current
             /\ request'[r].new = request[r].new
             /\ request'[r].version = request[r].version
             /\ request'[r].must = request[r].must
             /\ request'[r].actor = request[r].actor
             /\ request'[r].target = request[r].target
             /\ request'[r].active = request[r].active
  <2> DEFINE b == request[r].overtaken
                  \/ (/\ request[r].op = "roles"
                      /\ request[r].actor = request[q].target
                      /\ request[r].target = request[q].target)
             act == [request[r] EXCEPT !.overtaken = b]
  <2>1. request[r] \in Activity
    BY <1>3 DEF TypeInv, TypeOK
  <2>2. b \in BOOLEAN
    BY <2>1 DEF Activity
  <2>3. request'[r] = act
    BY <1>1, <1>3
  <2> HIDE DEF b
  <2>4. act \in Activity /\ act # Nothing
    <3>1. act \in Activity
      BY <2>1, <2>2 DEF Activity
    <3> QED
      BY <3>1, NothingAssumption
  <2> QED
    BY <2>1, <2>3, <2>4 DEF Activity
<1>4. request'[q] = Nothing
  BY <1>1
<1>5. \A r \in Requests : request[r] = Nothing => request'[r] = Nothing
  BY <1>1
<1>6. request' \in [Requests -> Activity \cup {Nothing}]
  <2>1. \A r \in Requests : request'[r] \in Activity \cup {Nothing}
    BY <1>3, <1>4, <1>5
  <2> QED
    BY <1>1, <2>1
<1> QED
  BY <1>3, <1>4, <1>5, <1>6

(* The roles of an account are replaced, and with them what others hold.     *)
LEMMA RolesWritten ==
  ASSUME TypeInv, NEW q \in Requests, WriteRoles(q)
  PROVE  TypeInv'
<1>0. request[q] # Nothing /\ request[q].op = "roles" /\ request[q] \in Activity
  BY DEF WriteRoles, Holds, TypeInv, TypeOK
<1>1. CASE Collides(q)
  <2>1. Refuse(q)
    BY <1>1 DEF WriteRoles, Collides, Kept
  <2> QED
    BY <1>0, <2>1, Refusing
<1>2. CASE ~Collides(q)
  <2>1. /\ UNCHANGED <<epoch, lag, token, revoked>> /\ queue' = Released(q, "admin")
    BY <1>2 DEF WriteRoles, Collides, Kept
  <2>2. AccountTypes' /\ \A v \in Users : Exists(v) => Exists(v)'
    BY <1>2, AssignsRoles
  <2>3. /\ request'[q] = Nothing
        /\ \A r \in Requests : request[r] = Nothing => request'[r] = Nothing
        /\ request' \in [Requests -> Activity \cup {Nothing}]
        /\ \A r \in Requests : r # q /\ request[r] # Nothing =>
             /\ request'[r] # Nothing
             /\ request'[r].op = request[r].op /\ request'[r].pc = request[r].pc
             /\ request'[r].roles = request[r].roles
             /\ request'[r].new = request[r].new
             /\ request'[r].actor = request[r].actor
             /\ request'[r].target = request[r].target
    BY <1>2, Overtaking
  <2>4. QueueTypes' /\ Queued' /\ HeadWrites'
    <3>1. queue' = Released(q, LockOf(request[q].op))
      BY <1>0, <2>1 DEF LockOf
    <3> QED
      BY <1>0, <2>3, <3>1, Leaving
  <2>5. \A r \in Requests : Carries(r)'
    BY <2>2, <2>3, StillCarries
  <2>6. TokensHaveUsers' /\ token' \in [Sessions -> Token \cup {Nothing}]
    BY <2>1, <2>2, SameTokens
  <2>7. CountTypes' /\ revoked' \subseteq Sessions
    BY <2>1 DEF CountTypes, TypeInv, TypeOK
  <2> QED
    BY <2>2, <2>3, <2>4, <2>5, <2>6, <2>7, Parts
<1> QED
  BY <1>1, <1>2

(* The password of an account is replaced.                                   *)
LEMMA PasswordWritten ==
  ASSUME TypeInv, NEW q \in Requests, NEW u \in Users, Exists(u),
         request[q] # Nothing, request[q].op \in {"change", "reset"},
         NEW must \in BOOLEAN, NEW version \in Nat, NEW behind \in Int,
         Replace(q, u, must, version, behind)
  PROVE  TypeInv'
<1>1. request[q].new \in Passwords
  BY DEF TypeInv, Carries
<1>2. /\ AccountTypes' /\ CountTypes'
      /\ \A v \in Users : Exists(v) => Exists(v)'
  BY <1>1, Replaces
<1>3. /\ request' = Done(q) /\ queue' = Released(q, LockOf(request[q].op))
      /\ UNCHANGED <<token, revoked>>
  BY DEF Replace, LockOf
<1> QED
  BY <1>2, <1>3, Writing

LEMMA Replacing ==
  ASSUME TypeInv, NEW q \in Requests
  PROVE  /\ WriteChange(q) => \E u \in Users, must \in BOOLEAN, version \in Nat, behind \in Int :
               /\ Exists(u) /\ request[q] # Nothing /\ request[q].op = "change"
               /\ Replace(q, u, must, version, behind)
         /\ Reset(q) => \E u \in Users, must \in BOOLEAN, version \in Nat, behind \in Int :
               /\ Exists(u) /\ request[q] # Nothing /\ request[q].op = "reset"
               /\ Replace(q, u, must, version, behind)
<1>1. ASSUME request[q] # Nothing
      PROVE  /\ request[q] \in Activity
             /\ request[q].actor \in Users /\ account[request[q].actor] \in Account
             /\ request[q].target \in Users /\ account[request[q].target] \in Account
             /\ Exists(request[q].actor) /\ Exists(request[q].target)
  <2>1. Carries(q) /\ request[q] \in Activity
    BY <1>1 DEF TypeInv, TypeOK
  <2>2. request[q].actor \in Users /\ request[q].target \in Users
    BY <2>1 DEF Activity
  <2> QED
    BY <1>1, <2>1, <2>2, RolesAreTyped DEF Carries
<1>2. ASSUME WriteChange(q)
      PROVE  \E u \in Users, must \in BOOLEAN, version \in Nat, behind \in Int :
               /\ Exists(u) /\ request[q] # Nothing /\ request[q].op = "change"
               /\ Replace(q, u, must, version, behind)
  <2> DEFINE must == account[request[q].actor].must /\ ~request[q].must
             version == request[q].version + 1
             behind == account[request[q].actor].version - request[q].version
  <2>1. request[q] # Nothing /\ request[q].op = "change"
    BY <1>2 DEF WriteChange, Holds
  <2>2. must \in BOOLEAN /\ version \in Nat /\ behind \in Int
    BY <1>1, <2>1 DEF Activity, Account
  <2>3. Replace(q, request[q].actor, must, version, behind)
    BY <1>2 DEF WriteChange
  <2> HIDE DEF must, version, behind
  <2> QED
    BY <1>1, <2>1, <2>2, <2>3
<1>3. ASSUME Reset(q)
      PROVE  \E u \in Users, must \in BOOLEAN, version \in Nat, behind \in Int :
               /\ Exists(u) /\ request[q] # Nothing /\ request[q].op = "reset"
               /\ Replace(q, u, must, version, behind)
  <2> DEFINE version == account[request[q].target].version + 1
  <2>1. request[q] # Nothing /\ request[q].op = "reset"
    BY <1>3 DEF Reset, Holds
  <2>2. version \in Nat /\ 0 \in Int
    BY <1>1, <2>1 DEF Account
  <2>3. Replace(q, request[q].target, TRUE, version, 0)
    BY <1>3 DEF Reset
  <2> HIDE DEF version
  <2> QED
    BY <1>1, <2>1, <2>2, <2>3
<1> QED
  BY <1>2, <1>3

LEMMA TypeStep == TypeInv /\ [Next]_vars => TypeInv'
<1> SUFFICES ASSUME TypeInv, [Next]_vars PROVE TypeInv'
  OBVIOUS
<1>1. ASSUME NEW u \in Users, NEW p \in Chosen, SignUp(u, p) PROVE TypeInv'
  BY <1>1, SignsUp
<1>2. ASSUME NEW s \in Sessions, Logout(s) PROVE TypeInv'
  BY <1>2, TokensGo DEF Logout, TypeInv, TypeOK
<1>3. ASSUME NEW s \in Sessions, Expire(s) PROVE TypeInv'
  BY <1>3, TokensGo DEF Expire, TypeInv, TypeOK
<1>4. ASSUME NEW q \in Requests, Arrive(q) PROVE TypeInv'
  <2>1. ASSUME NEW u \in Users, Exists(u), NEW p \in Known(u), LoginLoads(q, u, p)
        PROVE  TypeInv'
    BY <2>1, LoginStarts
  <2>2. ASSUME NEW s \in Sessions, Acceptable(s)
        PROVE  token[s].user \in Users /\ Exists(token[s].user)
    BY <2>2 DEF Acceptable, TypeInv, TypeOK, TokensHaveUsers, Token
  <2>3. ASSUME NEW s \in Sessions, Acceptable(s), NEW u, u = token[s].user,
               \/ \E v \in Users : \/ \E b \in BOOLEAN : AskActive(q, u, v, b)
                                   \/ \E roles \in SUBSET Roles : AskRoles(q, u, v, roles)
                                   \/ \E t \in Temporary : AskReset(q, u, v, t)
               \/ \E p \in Passwords, new \in Chosen : AskChange(q, u, p, new)
        PROVE  TypeInv'
    <3>1. u \in Users /\ Exists(u)
      BY <2>2, <2>3
    <3> QED
      BY <2>3, <3>1, Asks
  <2> QED
    BY <1>4, <2>1, <2>3 DEF Arrive
<1>5. ASSUME NEW q \in Requests, Proceed(q) PROVE TypeInv'
  <2>1. CASE LoginVerifies(q)
    BY <2>1, LoginEnds
  <2>2. CASE CheckActive(q)
    BY <2>2, Refusing, Going DEF CheckActive, Holds, Ops
  <2>3. CASE WriteActive(q)
    <3>1. AccountTypes' /\ \A v \in Users : Exists(v) => Exists(v)'
      BY <2>3, Activates
    <3>2. /\ request[q] # Nothing /\ request' = Done(q)
          /\ queue' = Released(q, LockOf(request[q].op))
          /\ UNCHANGED <<epoch, lag, token, revoked>>
      BY <2>3 DEF WriteActive, Holds, LockOf
    <3>3. CountTypes'
      BY <3>2 DEF CountTypes, TypeInv, TypeOK
    <3> QED
      BY <3>1, <3>2, <3>3, Writing
  <2>4. CASE CheckRoles(q)
    BY <2>4, Refusing, Going DEF CheckRoles, Holds, Ops
  <2>5. CASE WriteRoles(q)
    BY <2>5, RolesWritten
  <2>6. CASE VerifyCurrent(q)
    BY <2>6, Refusing, Going DEF VerifyCurrent, Holds, Ops
  <2>7. CASE WriteChange(q) \/ Reset(q)
    BY <2>7, Replacing, PasswordWritten
  <2> QED
    BY <1>5, <2>1, <2>2, <2>3, <2>4, <2>5, <2>6, <2>7 DEF Proceed
<1>6. ASSUME NEW q \in Requests, Fail(q) PROVE TypeInv'
  BY <1>6, Refusing DEF Fail
<1>7. CASE UNCHANGED vars
  <2>1. UNCHANGED <<account, epoch, lag, token, revoked, queue, request>>
    BY <1>7 DEF vars
  <2>2. /\ AccountTypes' /\ QueueTypes' /\ Queued' /\ HeadWrites' /\ TokensHaveUsers'
        /\ CountTypes' /\ revoked' \subseteq Sessions
        /\ token' \in [Sessions -> Token \cup {Nothing}]
        /\ request' \in [Requests -> Activity \cup {Nothing}]
    BY <2>1 DEF CountTypes, AccountTypes, QueueTypes, Queued, InQueue, HeadWrites, Exists,
                TokensHaveUsers, TypeInv, TypeOK
  <2>3. \A r \in Requests : Carries(r)'
    BY <2>1, StillCarries DEF Exists
  <2> QED
    BY <2>2, <2>3, Parts
<1> QED
  BY <1>1, <1>2, <1>3, <1>4, <1>5, <1>6, <1>7 DEF Next

(* Accounts, tokens, queues and requests keep their shape in every           *)
(* reachable state, and each request for a lock is in its queue once.        *)
THEOREM TypeInvariance == Spec => []TypeOK
<1>1. Init => TypeInv
  BY TypeInit
<1>2. TypeInv /\ [Next]_vars => TypeInv'
  BY TypeStep
<1>3. TypeInv => TypeOK
  BY DEF TypeInv
<1> QED
  BY <1>1, <1>2, <1>3, PTL DEF Spec

-----------------------------------------------------------------------------
Admin(u) == Exists(u) /\ account[u].active /\ "ADMIN" \in account[u].roles

(* What is about to be written leaves an ADMIN: the check saw another one,   *)
(* and the lock keeps that one from being written meanwhile.                 *)
Strips(q) ==
  /\ request[q] # Nothing /\ request[q].pc = "write"
  /\ \/ request[q].op = "active" /\ ~request[q].active
     \/ request[q].op = "roles" /\ "ADMIN" \notin request[q].roles

WriteSafe == \A q \in Requests : Strips(q) => OtherAdmins(request[q].target) # {}

AdminInv == AnAdminRemains /\ WriteSafe

(* A step that makes nobody less of an ADMIN and no request a new threat.    *)
LEMMA NobodyLoses ==
  ASSUME TypeInv, AdminInv, TypeInv',
         \A u \in Users : Admin(u) => Admin(u)',
         \A q \in Requests : Strips(q)' =>
           Strips(q) /\ request'[q].target = request[q].target
  PROVE  AdminInv'
<1>1. AnAdminRemains'
  BY DEF AdminInv, AnAdminRemains, Admin
<1>2. ASSUME NEW q \in Requests, Strips(q)'
      PROVE  OtherAdmins(request[q].target)' # {}
  <2>1. PICK v \in Users \ {request[q].target} : Admin(v)
    BY <1>2 DEF AdminInv, WriteSafe, OtherAdmins, Admin
  <2>2. Admin(v)' /\ request'[q].target = request[q].target
    BY <1>2, <2>1
  <2> QED
    BY <2>1, <2>2 DEF OtherAdmins, Admin
<1> QED
  BY <1>1, <1>2 DEF AdminInv, WriteSafe

(* Nobody else is about to write while a holder of the admin lock does.      *)
LEMMA OneWriter ==
  ASSUME TypeInv, NEW q \in Requests, NEW r \in Requests, NEW op \in {"active", "roles"},
         Holds(q, op, "write"), Strips(r)
  PROVE  r = q
<1>1. LockOf(request[r].op) = "admin" /\ LockOf(op) = "admin" /\ op = request[q].op
  BY DEF Strips, LockOf, Holds
<1>2. queue["admin"][1] = r /\ queue["admin"][1] = q
  BY <1>1 DEF TypeInv, HeadWrites, Strips, Holds
<1> QED
  BY <1>2

(* The request that wrote is gone, and there was only one.                   *)
LEMMA WriterLeaves ==
  ASSUME TypeInv, NEW q \in Requests, NEW op \in {"active", "roles"},
         Holds(q, op, "write"), request'[q] = Nothing,
         \A r \in Requests : Strips(r)' => Strips(r)
  PROVE  WriteSafe'
<1>1. ASSUME NEW r \in Requests, Strips(r)' PROVE FALSE
  <2>1. request'[r] # Nothing /\ Strips(r)
    BY <1>1 DEF Strips
  <2>2. r = q
    BY <2>1, OneWriter
  <2> QED
    BY <2>1, <2>2
<1> QED
  BY <1>1 DEF WriteSafe

LEMMA ActiveWritten ==
  ASSUME TypeInv, AdminInv, NEW q \in Requests, WriteActive(q)
  PROVE  AdminInv'
<1> DEFINE u == request[q].target
<1>1. /\ Holds(q, "active", "write") /\ request' = Done(q)
      /\ request[q] # Nothing /\ request[q].pc = "write" /\ request[q].op = "active"
  BY DEF WriteActive, Holds
<1>2. /\ u \in Users /\ account'[u] # Nothing
      /\ account'[u].active = request[q].active
      /\ account'[u].roles = account[u].roles
      /\ \A v \in Users : v # u => account'[v] = account[v]
  BY Activates
<1>3. AnAdminRemains'
  <2>1. CASE request[q].active
    <3>1. PICK v \in Users : Admin(v)
      BY DEF AdminInv, AnAdminRemains, Admin
    <3>2. Admin(v)'
      BY <1>2, <2>1, <3>1 DEF Admin, Exists
    <3> QED
      BY <3>2 DEF AnAdminRemains, Admin
  <2>2. CASE ~request[q].active
    <3>1. PICK v \in Users \ {u} : Admin(v)
      BY <1>1, <2>2 DEF AdminInv, WriteSafe, Strips, OtherAdmins, Admin
    <3>2. Admin(v)'
      BY <1>2, <3>1 DEF Admin, Exists
    <3> QED
      BY <3>2 DEF AnAdminRemains, Admin
  <2> QED
    BY <2>1, <2>2
<1>4. WriteSafe'
  <2>1. request'[q] = Nothing /\ \A r \in Requests : r # q => request'[r] = request[r]
    BY <1>1 DEF Done, TypeInv, TypeOK
  <2> QED
    BY <1>1, <2>1, WriterLeaves DEF Strips
<1> QED
  BY <1>3, <1>4 DEF AdminInv

LEMMA StripsOfTheSame ==
  ASSUME NEW r \in Requests,
         request'[r] # Nothing =>
           /\ request[r] # Nothing
           /\ request'[r].pc = request[r].pc /\ request'[r].op = request[r].op
           /\ request'[r].roles = request[r].roles
           /\ request'[r].active = request[r].active
           /\ request'[r].target = request[r].target
  PROVE  Strips(r)' => Strips(r) /\ request'[r].target = request[r].target
BY DEF Strips

LEMMA RolesStayAdministered ==
  ASSUME TypeInv, AdminInv, TypeInv', NEW q \in Requests, WriteRoles(q)
  PROVE  AdminInv'
<1> DEFINE u == request[q].target
<1>1. /\ Holds(q, "roles", "write")
      /\ request[q] # Nothing /\ request[q].pc = "write" /\ request[q].op = "roles"
  BY DEF WriteRoles, Holds
<1>2. CASE Collides(q)
  <2>1. account' = account /\ request' = Done(q)
    BY <1>2 DEF WriteRoles, Collides, Kept, Refuse
  <2>2. request'[q] = Nothing /\ \A r \in Requests : r # q => request'[r] = request[r]
    BY <2>1 DEF Done, TypeInv, TypeOK
  <2>3. \A r \in Requests : Strips(r)' => Strips(r) /\ request'[r].target = request[r].target
    BY <2>2 DEF Strips
  <2> QED
    BY <2>1, <2>3, NobodyLoses DEF Admin, Exists
<1>3. CASE ~Collides(q)
  <2>1. /\ u \in Users /\ account'[u] # Nothing
        /\ account'[u].active = account[u].active
        /\ account'[u].roles = Kept(q) \cup request[q].roles
        /\ \A v \in Users : v # u => account'[v] = account[v]
    BY <1>3, AssignsRoles
  <2>2. AnAdminRemains'
    <3>1. CASE "ADMIN" \in request[q].roles
      <4>1. PICK v \in Users : Admin(v)
        BY DEF AdminInv, AnAdminRemains, Admin
      <4>2. Admin(v)'
        BY <2>1, <3>1, <4>1 DEF Admin, Exists
      <4> QED
        BY <4>2 DEF AnAdminRemains, Admin
    <3>2. CASE "ADMIN" \notin request[q].roles
      <4>1. PICK v \in Users \ {u} : Admin(v)
        BY <1>1, <3>2 DEF AdminInv, WriteSafe, Strips, OtherAdmins, Admin
      <4>2. Admin(v)'
        BY <2>1, <4>1 DEF Admin, Exists
      <4> QED
        BY <4>2 DEF AnAdminRemains, Admin
    <3> QED
      BY <3>1, <3>2
  <2>3. WriteSafe'
    <3>1. /\ request'[q] = Nothing
          /\ \A r \in Requests : request'[r] # Nothing =>
               /\ request[r] # Nothing
               /\ request'[r].pc = request[r].pc /\ request'[r].op = request[r].op
               /\ request'[r].roles = request[r].roles
               /\ request'[r].active = request[r].active
               /\ request'[r].target = request[r].target
      BY <1>3, Overtaking
    <3>2. \A r \in Requests : Strips(r)' => Strips(r)
      BY <3>1, StripsOfTheSame
    <3> QED
      BY <1>1, <3>1, <3>2, WriterLeaves
  <2> QED
    BY <2>2, <2>3 DEF AdminInv
<1> QED
  BY <1>2, <1>3

(* Somebody is checked: the target is no ADMIN, or another one is left.      *)
LEMMA Checked ==
  ASSUME TypeInv, AdminInv, NEW q \in Requests, request[q] # Nothing,
         ~IsAdmin(q) \/ OtherAdmins(request[q].target) # {}
  PROVE  OtherAdmins(request[q].target) # {}
<1>1. CASE ~IsAdmin(q)
  <2>1. PICK v \in Users : Admin(v)
    BY DEF AdminInv, AnAdminRemains, Admin
  <2>2. v # request[q].target
    BY <1>1, <2>1 DEF IsAdmin, Admin
  <2> QED
    BY <2>1, <2>2 DEF OtherAdmins, Admin
<1> QED
  BY <1>1

LEMMA ChecksStayAdministered ==
  ASSUME TypeInv, AdminInv, TypeInv', NEW q \in Requests, NEW op \in Ops, op # "login",
         Holds(q, op, "queue"), Goes(q, "write"),
         \/ op = "change"
         \/ /\ op = "active"
            /\ request[q].active \/ ~IsAdmin(q) \/ OtherAdmins(request[q].target) # {}
         \/ /\ op = "roles"
            /\ \/ ~IsAdmin(q) \/ "ADMIN" \in request[q].roles
               \/ OtherAdmins(request[q].target) # {}
  PROVE  AdminInv'
<1>1. /\ request'[q] = [request[q] EXCEPT !.pc = "write"]
      /\ \A r \in Requests : r # q => request'[r] = request[r]
  BY GoingOn
<1>2. account' = account
  BY DEF Goes
<1>3. request[q] # Nothing /\ request[q] \in Activity /\ request[q].op = op
  BY DEF Holds, TypeInv, TypeOK
<1>4. /\ request'[q].op = op /\ request'[q].target = request[q].target
      /\ request'[q].roles = request[q].roles
      /\ request'[q].active = request[q].active
  BY <1>1, <1>3 DEF Activity
<1>5. \A u : OtherAdmins(u)' = OtherAdmins(u)
  BY <1>2 DEF OtherAdmins, Exists
<1>6. ASSUME NEW r \in Requests, Strips(r)'
      PROVE  OtherAdmins(request[r].target)' # {}
  <2>1. CASE r = q
    <3>1. OtherAdmins(request[q].target) # {}
      BY <1>3, <1>4, <1>6, <2>1, Checked DEF Strips
    <3> QED
      BY <1>4, <1>5, <2>1, <3>1
  <2>2. CASE r # q
    <3>1. Strips(r) /\ request'[r].target = request[r].target
      BY <1>1, <1>6, <2>2 DEF Strips
    <3> QED
      BY <1>5, <3>1 DEF AdminInv, WriteSafe
  <2> QED
    BY <2>1, <2>2
<1>7. AnAdminRemains'
  BY <1>2 DEF AdminInv, AnAdminRemains, Exists
<1> QED
  BY <1>6, <1>7 DEF AdminInv, WriteSafe

(* A request ends that wrote nothing of what makes an ADMIN.                 *)
LEMMA EndsStayAdministered ==
  ASSUME TypeInv, AdminInv, TypeInv', NEW q \in Requests, request' = Done(q),
         \A u \in Users : Admin(u) => Admin(u)'
  PROVE  AdminInv'
<1>1. request'[q] = Nothing /\ \A r \in Requests : r # q => request'[r] = request[r]
  BY DEF Done, TypeInv, TypeOK
<1>2. \A r \in Requests : Strips(r)' => Strips(r) /\ request'[r].target = request[r].target
  BY <1>1 DEF Strips
<1> QED
  BY <1>2, NobodyLoses

(* A request comes in, with nothing checked yet.                             *)
LEMMA ArrivalsStayAdministered ==
  ASSUME TypeInv, AdminInv, TypeInv', NEW q \in Requests, UNCHANGED account,
         NEW wish, wish.pc = "queue", request' = [request EXCEPT ![q] = wish]
  PROVE  AdminInv'
<1>1. request'[q] = wish /\ \A r \in Requests : r # q => request'[r] = request[r]
  BY DEF TypeInv, TypeOK
<1>2. \A r \in Requests : Strips(r)' => Strips(r) /\ request'[r].target = request[r].target
  BY <1>1 DEF Strips
<1>3. \A u \in Users : Admin(u) => Admin(u)'
  BY DEF Admin, Exists
<1> QED
  BY <1>2, <1>3, NobodyLoses

LEMMA AdminStep == TypeInv /\ AdminInv /\ [Next]_vars => AdminInv'
<1> SUFFICES ASSUME TypeInv, AdminInv, [Next]_vars PROVE AdminInv'
  OBVIOUS
<1>0. TypeInv'
  BY TypeStep
<1>1. ASSUME NEW u \in Users, NEW p \in Chosen, SignUp(u, p) PROVE AdminInv'
  <2>1. \A v \in Users : Admin(v) => Admin(v)'
    BY <1>1, Registers DEF Admin, Exists
  <2>2. request' = request
    BY <1>1 DEF SignUp
  <2>3. \A r \in Requests : Strips(r)' => Strips(r) /\ request'[r].target = request[r].target
    BY <2>2 DEF Strips
  <2> QED
    BY <1>0, <2>1, <2>3, NobodyLoses
<1>2. ASSUME UNCHANGED <<account, request>> PROVE AdminInv'
  BY <1>2 DEF AdminInv, AnAdminRemains, WriteSafe, Strips, OtherAdmins, Exists
<1>3. ASSUME NEW q \in Requests, Refuse(q) PROVE AdminInv'
  <2>1. request' = Done(q) /\ account' = account
    BY <1>3 DEF Refuse
  <2> QED
    BY <1>0, <2>1, EndsStayAdministered DEF Admin, Exists
<1>4. ASSUME NEW q \in Requests, Arrive(q) PROVE AdminInv'
  <2>1. ASSUME NEW u, NEW op, NEW wish, request' = [request EXCEPT ![q] = wish],
               wish.pc = "queue", UNCHANGED account
        PROVE  AdminInv'
    BY <1>0, <2>1, ArrivalsStayAdministered
  <2>2. ASSUME NEW u, NEW p, LoginLoads(q, u, p) PROVE AdminInv'
    <3> DEFINE wish == [Blank(u, "login") EXCEPT !.current = p,
                                                 !.version = account[u].version]
    <3>1. request' = [request EXCEPT ![q] = wish] /\ UNCHANGED account
      BY <2>2 DEF LoginLoads
    <3>2. wish.pc = "queue"
      BY DEF Blank
    <3> QED
      BY <2>1, <3>1, <3>2
  <2>3. ASSUME NEW u, NEW v, NEW b, AskActive(q, u, v, b) PROVE AdminInv'
    <3> DEFINE wish == [Blank(u, "active") EXCEPT !.target = v, !.active = b]
    <3>1. request' = [request EXCEPT ![q] = wish] /\ UNCHANGED account
      BY <2>3 DEF AskActive, Ask
    <3>2. wish.pc = "queue"
      BY DEF Blank
    <3> QED
      BY <2>1, <3>1, <3>2
  <2>4. ASSUME NEW u, NEW v, NEW roles, AskRoles(q, u, v, roles) PROVE AdminInv'
    <3> DEFINE wish == [Blank(u, "roles") EXCEPT !.target = v, !.roles = roles]
    <3>1. request' = [request EXCEPT ![q] = wish] /\ UNCHANGED account
      BY <2>4 DEF AskRoles, Ask
    <3>2. wish.pc = "queue"
      BY DEF Blank
    <3> QED
      BY <2>1, <3>1, <3>2
  <2>5. ASSUME NEW u, NEW v, NEW t, AskReset(q, u, v, t) PROVE AdminInv'
    <3> DEFINE wish == [Blank(u, "reset") EXCEPT !.target = v, !.new = t]
    <3>1. request' = [request EXCEPT ![q] = wish] /\ UNCHANGED account
      BY <2>5 DEF AskReset, Ask
    <3>2. wish.pc = "queue"
      BY DEF Blank
    <3> QED
      BY <2>1, <3>1, <3>2
  <2>6. ASSUME NEW u, NEW p, NEW new, AskChange(q, u, p, new) PROVE AdminInv'
    <3> DEFINE wish == [Blank(u, "change") EXCEPT !.current = p, !.new = new,
                          !.version = account[u].version, !.must = account[u].must]
    <3>1. request' = [request EXCEPT ![q] = wish] /\ UNCHANGED account
      BY <2>6 DEF AskChange, Ask
    <3>2. wish.pc = "queue"
      BY DEF Blank
    <3> QED
      BY <2>1, <3>1, <3>2
  <2> QED
    BY <1>4, <2>2, <2>3, <2>4, <2>5, <2>6 DEF Arrive
<1>5. ASSUME NEW q \in Requests, Proceed(q) PROVE AdminInv'
  <2>1. CASE LoginVerifies(q)
    <3>1. request' = Done(q) /\ account' = account
      BY <2>1 DEF LoginVerifies
    <3> QED
      BY <1>0, <3>1, EndsStayAdministered DEF Admin, Exists
  <2>2. CASE CheckActive(q)
    <3>1. Holds(q, "active", "queue") /\ request[q] # Nothing
      BY <2>2 DEF CheckActive, Holds
    <3>2. CASE Refuse(q)
      BY <1>3, <3>2
    <3>3. CASE /\ Goes(q, "write")
               /\ request[q].active \/ ~IsAdmin(q) \/ OtherAdmins(request[q].target) # {}
      BY <1>0, <3>1, <3>3, ChecksStayAdministered DEF Ops
    <3> QED
      BY <2>2, <3>2, <3>3 DEF CheckActive
  <2>3. CASE WriteActive(q)
    BY <2>3, ActiveWritten
  <2>4. CASE CheckRoles(q)
    <3>1. Holds(q, "roles", "queue") /\ request[q] # Nothing
      BY <2>4 DEF CheckRoles, Holds
    <3>2. CASE Refuse(q)
      BY <1>3, <3>2
    <3>3. CASE /\ Goes(q, "write")
               /\ \/ ~IsAdmin(q) \/ "ADMIN" \in request[q].roles
                  \/ OtherAdmins(request[q].target) # {}
      BY <1>0, <3>1, <3>3, ChecksStayAdministered DEF Ops
    <3> QED
      BY <2>4, <3>2, <3>3 DEF CheckRoles
  <2>5. CASE WriteRoles(q)
    BY <1>0, <2>5, RolesStayAdministered
  <2>6. CASE VerifyCurrent(q)
    <3>1. Holds(q, "change", "queue")
      BY <2>6 DEF VerifyCurrent
    <3>2. CASE Refuse(q)
      BY <1>3, <3>2
    <3>3. CASE Goes(q, "write")
      BY <1>0, <3>1, <3>3, ChecksStayAdministered DEF Ops
    <3> QED
      BY <2>6, <3>2, <3>3 DEF VerifyCurrent
  <2>7. CASE WriteChange(q) \/ Reset(q)
    <3>1. PICK u \in Users, must \in BOOLEAN, version \in Nat, behind \in Int :
            /\ Exists(u) /\ request[q] # Nothing /\ request[q].op \in {"change", "reset"}
            /\ Replace(q, u, must, version, behind)
      BY <2>7, Replacing
    <3>2. request[q].new \in Passwords
      BY <3>1 DEF TypeInv, Carries
    <3>3. /\ account'[u] # Nothing
          /\ account'[u].active = account[u].active
          /\ account'[u].roles = account[u].roles
          /\ \A v \in Users : v # u => account'[v] = account[v]
      BY <3>1, <3>2, Replaces
    <3>4. \A v \in Users : Admin(v) => Admin(v)'
      BY <3>3 DEF Admin, Exists
    <3>5. request' = Done(q)
      BY <3>1 DEF Replace
    <3> QED
      BY <1>0, <3>4, <3>5, EndsStayAdministered
  <2> QED
    BY <1>5, <2>1, <2>2, <2>3, <2>4, <2>5, <2>6, <2>7 DEF Proceed
<1> QED
  BY <1>1, <1>2, <1>3, <1>4, <1>5 DEF Next, vars, Logout, Expire, Fail

(* "The final active ADMIN can never be deactivated or lose the ADMIN role": *)
(* however the two requests of user_management.py interleave, in their own   *)
(* session's view of the accounts, and whichever of them an exception ends.  *)
THEOREM AdminsRemain == Spec => []AnAdminRemains
<1>1. Init => TypeInv
  BY TypeInit
<1>2. Init => AdminInv
  <2> SUFFICES ASSUME Init PROVE AdminInv
    OBVIOUS
  <2> DEFINE row == Registered({"ADMIN"}, CHOOSE p \in Chosen : TRUE)
  <2>1. account[Founder] = row /\ Founder \in Users
    BY UsersAssumption DEF Init
  <2>2. row.active /\ "ADMIN" \in row.roles
    BY DEF Registered
  <2>3. account[Founder] # Nothing
    <3>1. row \in Account
      BY UsersAssumption, RolesAssumption DEF Registered, Account, Passwords
    <3> HIDE DEF row
    <3> QED
      BY <2>1, <3>1, NothingAssumption
  <2> QED
    BY <2>1, <2>2, <2>3 DEF AdminInv, AnAdminRemains, WriteSafe, Strips, Exists, Init
<1>3. TypeInv /\ [Next]_vars => TypeInv'
  BY TypeStep
<1>4. TypeInv /\ AdminInv /\ [Next]_vars => AdminInv'
  BY AdminStep
<1>5. AdminInv => AnAdminRemains
  BY DEF AdminInv
<1> QED
  BY <1>1, <1>2, <1>3, <1>4, <1>5, PTL DEF Spec

-----------------------------------------------------------------------------
(* What a step does to passwords, sessions and the requests that concern     *)
(* them: it replaces a password, lets a request in or on, or does neither.   *)

(* No request appears or changes what it carries.                            *)
RequestsStay ==
  \A r \in Requests : request'[r] # Nothing =>
    /\ request[r] # Nothing
    /\ request'[r].op = request[r].op /\ request'[r].pc = request[r].pc
    /\ request'[r].actor = request[r].actor
    /\ request'[r].target = request[r].target
    /\ request'[r].current = request[r].current
    /\ request'[r].new = request[r].new
    /\ request'[r].version = request[r].version
    /\ request'[r].must = request[r].must

CredentialsStay ==
  \A u \in Users : Exists(u) =>
    /\ Exists(u)'
    /\ account'[u].password = account[u].password
    /\ account'[u].must = account[u].must
    /\ account'[u].version = account[u].version

NewcomersChoose ==
  \A u \in Users : ~Exists(u) /\ Exists(u)' =>
    account'[u].password \in Chosen /\ ~account'[u].must /\ account'[u].version = 1

(* A token is new only at the end of a login.                                *)
TokensStay ==
  \A s \in Sessions : token'[s] # Nothing =>
    \/ token'[s] = token[s]
    \/ \E q \in Requests :
         /\ request[q] # Nothing /\ request[q].op = "login"
         /\ token'[s] = Issued(request[q].actor, request[q].version)

Calm == /\ RequestsStay /\ CredentialsStay /\ NewcomersChoose /\ TokensStay
        /\ UNCHANGED <<epoch, lag>>

Arrives(q, wish) ==
  /\ request' = [request EXCEPT ![q] = wish]
  /\ UNCHANGED <<account, epoch, lag, token>>

(* What a request is that has just come in.                                  *)
Wishes(q, wish) ==
  /\ wish # Nothing /\ wish.pc = "queue"
  /\ wish.actor \in Users /\ Exists(wish.actor)
  /\ \/ wish.op \in {"active", "roles"}
     \/ wish.op = "login" /\ wish.version = account[wish.actor].version
     \/ /\ wish.op = "change"
        /\ wish.new \in Chosen
        /\ wish.current \in Known(wish.actor)
        /\ wish.version = account[wish.actor].version
        /\ wish.must = account[wish.actor].must
     \/ /\ wish.op = "reset"
        /\ wish.new \in Temporary
        /\ \A v \in Users : Exists(v) => account[v].password # wish.new
        /\ \A r \in Requests : request[r] # Nothing =>
             request[r].new # wish.new /\ request[r].current # wish.new

LEMMA DoneStays ==
  ASSUME TypeInv, NEW q \in Requests, request' = Done(q)
  PROVE  RequestsStay
<1>1. request'[q] = Nothing /\ \A r \in Requests : r # q => request'[r] = request[r]
  BY DEF Done, TypeInv, TypeOK
<1> QED
  BY <1>1 DEF RequestsStay

LEMMA AccountsStay ==
  ASSUME UNCHANGED account
  PROVE  CredentialsStay /\ NewcomersChoose
BY DEF CredentialsStay, NewcomersChoose, Exists

LEMMA RefusalIsCalm ==
  ASSUME TypeInv, NEW q \in Requests, Refuse(q)
  PROVE  Calm
<1>1. /\ request' = Done(q) /\ UNCHANGED <<account, epoch, lag, token>>
  BY DEF Refuse
<1>2. RequestsStay
  BY <1>1, DoneStays
<1>3. CredentialsStay /\ NewcomersChoose
  BY <1>1, AccountsStay
<1> QED
  BY <1>1, <1>2, <1>3 DEF Calm, TokensStay

LEMMA SignUpIsCalm ==
  ASSUME TypeInv, NEW u \in Users, NEW p \in Chosen, SignUp(u, p)
  PROVE  Calm
<1> DEFINE row == Registered({"OPERATOR"}, p)
<1>1. /\ account' = [account EXCEPT ![u] = row] /\ ~Exists(u)
      /\ UNCHANGED <<epoch, lag, token, request>>
  BY DEF SignUp
<1>2. row.password = p /\ row.must = FALSE /\ row.version = 1
  BY DEF Registered
<1>3. /\ account'[u] = row /\ \A v \in Users : v # u => account'[v] = account[v]
  BY <1>1 DEF TypeInv, TypeOK
<1> HIDE DEF row
<1>4. CredentialsStay
  BY <1>1, <1>3 DEF CredentialsStay, Exists
<1>5. NewcomersChoose
  BY <1>2, <1>3 DEF NewcomersChoose, Exists
<1> QED
  BY <1>1, <1>4, <1>5 DEF Calm, RequestsStay, TokensStay

LEMMA TokenGoesCalmly ==
  ASSUME TypeInv, NEW s \in Sessions, Logout(s) \/ Expire(s)
  PROVE  Calm
<1>1. UNCHANGED <<account, epoch, lag, request>>
  BY DEF Logout, Expire
<1>2. token' = token \/ token' = [token EXCEPT ![s] = Nothing]
  BY DEF Logout, Expire
<1>3. TokensStay
  BY <1>2 DEF TokensStay, TypeInv, TypeOK
<1> QED
  BY <1>1, <1>3, AccountsStay DEF Calm, RequestsStay

LEMMA LoginEndsCalmly ==
  ASSUME TypeInv, NEW q \in Requests, LoginVerifies(q)
  PROVE  Calm
<1> DEFINE new == Issued(request[q].actor, request[q].version)
<1>1. /\ request' = Done(q) /\ UNCHANGED <<account, epoch, lag>>
      /\ request[q] # Nothing /\ request[q].op = "login"
  BY DEF LoginVerifies
<1>2. \/ UNCHANGED token
      \/ token' = [token EXCEPT ![CHOOSE s \in Unused : TRUE] = new]
  BY DEF LoginVerifies
<1> HIDE DEF new
<1>3. \A s \in Sessions : token'[s] = token[s] \/ token'[s] = new
  BY <1>2 DEF TypeInv, TypeOK
<1>4. TokensStay
  BY <1>1, <1>3 DEF TokensStay, new
<1> QED
  BY <1>1, <1>4, DoneStays, AccountsStay DEF Calm

LEMMA ActivationIsCalm ==
  ASSUME TypeInv, NEW q \in Requests, WriteActive(q)
  PROVE  Calm
<1> DEFINE u == request[q].target
           row == [account[u] EXCEPT !.active = request[q].active]
<1>1. u \in Users /\ Exists(u) /\ request[q] \in Activity
  BY DEF WriteActive, Holds, TypeInv, TypeOK, Carries, Activity
<1>2. account[u] \in Account
  BY <1>1, RolesAreTyped
<1>3. /\ account' = [account EXCEPT ![u] = row] /\ request' = Done(q)
      /\ UNCHANGED <<epoch, lag, token>>
  BY DEF WriteActive
<1>4. account'[u] # Nothing
  BY Activates
<1> HIDE DEF u
<1>5. /\ row.password = account[u].password /\ row.must = account[u].must
      /\ row.version = account[u].version
  BY <1>2 DEF Account
<1> HIDE DEF row
<1>6. account'[u] = row /\ \A v \in Users : v # u => account'[v] = account[v]
  BY <1>1, <1>3 DEF TypeInv, TypeOK
<1>7. CredentialsStay /\ NewcomersChoose
  BY <1>1, <1>4, <1>5, <1>6 DEF CredentialsStay, NewcomersChoose, Exists
<1> QED
  BY <1>3, <1>7, DoneStays DEF Calm, TokensStay

LEMMA AssignmentIsCalm ==
  ASSUME TypeInv, NEW q \in Requests, WriteRoles(q)
  PROVE  Calm
<1>1. CASE Collides(q)
  <2>1. Refuse(q)
    BY <1>1 DEF WriteRoles, Collides, Kept
  <2> QED
    BY <2>1, RefusalIsCalm
<1>2. CASE ~Collides(q)
  <2> DEFINE u == request[q].target
             roles == Kept(q) \cup request[q].roles
             row == [account[u] EXCEPT !.roles = roles]
  <2>1. /\ u \in Users /\ Exists(u) /\ account'[u] # Nothing
    BY <1>2, AssignsRoles
  <2>2. account[u] \in Account
    BY <2>1, RolesAreTyped
  <2>3. /\ account' = [account EXCEPT ![u] = row] /\ UNCHANGED <<epoch, lag, token>>
    BY <1>2 DEF WriteRoles, Collides, Kept
  <2> HIDE DEF u, roles
  <2>4. /\ row.password = account[u].password /\ row.must = account[u].must
        /\ row.version = account[u].version
    BY <2>2 DEF Account
  <2> HIDE DEF row
  <2>5. account'[u] = row /\ \A v \in Users : v # u => account'[v] = account[v]
    BY <2>1, <2>3 DEF TypeInv, TypeOK
  <2>6. CredentialsStay /\ NewcomersChoose
    BY <2>1, <2>4, <2>5 DEF CredentialsStay, NewcomersChoose, Exists
  <2>7. RequestsStay
    BY <1>2, Overtaking DEF RequestsStay
  <2> QED
    BY <2>3, <2>6, <2>7 DEF Calm, TokensStay
<1> QED
  BY <1>1, <1>2

LEMMA ArrivalsWish ==
  ASSUME TypeInv, NEW q \in Requests, Arrive(q)
  PROVE  /\ request[q] = Nothing
         /\ \E wish : Wishes(q, wish) /\ Arrives(q, wish)
<1>1. ASSUME NEW u \in Users, Exists(u), NEW p \in Known(u), LoginLoads(q, u, p)
      PROVE  /\ request[q] = Nothing
             /\ \E wish : Wishes(q, wish) /\ Arrives(q, wish)
  <2> DEFINE version == account[u].version
             wish == [Blank(u, "login") EXCEPT !.current = p, !.version = version]
  <2>1. /\ request[q] = Nothing /\ Arrives(q, wish)
    BY <1>1 DEF LoginLoads, Arrives
  <2>2. version \in Nat /\ p \in Passwords
    BY <1>1, RolesAreTyped, KnownIsTyped DEF Account
  <2>3. version = account[u].version
    OBVIOUS
  <2> HIDE DEF version
  <2>4. /\ wish \in Activity /\ wish.op = "login" /\ wish.pc = "queue"
        /\ wish.actor = u /\ wish.version = version
    BY <2>2 DEF Blank, Activity, Ops
  <2> HIDE DEF wish
  <2>5. Wishes(q, wish)
    BY <1>1, <2>3, <2>4, NothingAssumption DEF Wishes
  <2> QED
    BY <2>1, <2>5
<1>2. ASSUME NEW s \in Sessions, Acceptable(s)
      PROVE  token[s].user \in Users /\ Exists(token[s].user)
  BY <1>2 DEF Acceptable, TypeInv, TypeOK, TokensHaveUsers, Token
<1>3. ASSUME NEW u \in Users, Exists(u), NEW v \in Users, NEW b \in BOOLEAN,
             AskActive(q, u, v, b)
      PROVE  /\ request[q] = Nothing
             /\ \E wish : Wishes(q, wish) /\ Arrives(q, wish)
  <2> DEFINE wish == [Blank(u, "active") EXCEPT !.target = v, !.active = b]
  <2>1. request[q] = Nothing /\ Arrives(q, wish)
    BY <1>3 DEF AskActive, Ask, Arrives
  <2>2. /\ wish \in Activity /\ wish.op = "active" /\ wish.pc = "queue"
        /\ wish.actor = u
    BY DEF Blank, Activity, Ops
  <2> HIDE DEF wish
  <2>3. Wishes(q, wish)
    BY <1>3, <2>2, NothingAssumption DEF Wishes
  <2> QED
    BY <2>1, <2>3
<1>4. ASSUME NEW u \in Users, Exists(u), NEW v \in Users, NEW roles \in SUBSET Roles,
             AskRoles(q, u, v, roles)
      PROVE  /\ request[q] = Nothing
             /\ \E wish : Wishes(q, wish) /\ Arrives(q, wish)
  <2> DEFINE wish == [Blank(u, "roles") EXCEPT !.target = v, !.roles = roles]
  <2>1. request[q] = Nothing /\ Arrives(q, wish)
    BY <1>4 DEF AskRoles, Ask, Arrives
  <2>2. /\ wish \in Activity /\ wish.op = "roles" /\ wish.pc = "queue"
        /\ wish.actor = u
    BY DEF Blank, Activity, Ops
  <2> HIDE DEF wish
  <2>3. Wishes(q, wish)
    BY <1>4, <2>2, NothingAssumption DEF Wishes
  <2> QED
    BY <2>1, <2>3
<1>5. ASSUME NEW u \in Users, Exists(u), NEW v \in Users, NEW t \in Temporary,
             AskReset(q, u, v, t)
      PROVE  /\ request[q] = Nothing
             /\ \E wish : Wishes(q, wish) /\ Arrives(q, wish)
  <2> DEFINE wish == [Blank(u, "reset") EXCEPT !.target = v, !.new = t]
  <2>1. /\ request[q] = Nothing /\ Arrives(q, wish)
        /\ \A w \in Users : Exists(w) => account[w].password # t
        /\ \A r \in Requests : request[r] # Nothing =>
             request[r].new # t /\ request[r].current # t
    BY <1>5 DEF AskReset, Ask, Arrives
  <2>2. /\ wish \in Activity /\ wish.op = "reset" /\ wish.pc = "queue"
        /\ wish.actor = u /\ wish.new = t
    BY DEF Blank, Activity, Ops, Passwords
  <2> HIDE DEF wish
  <2>3. Wishes(q, wish)
    BY <1>5, <2>1, <2>2, NothingAssumption DEF Wishes
  <2> QED
    BY <2>1, <2>3
<1>6. ASSUME NEW u \in Users, Exists(u), NEW p \in Passwords, NEW new \in Chosen,
             AskChange(q, u, p, new)
      PROVE  /\ request[q] = Nothing
             /\ \E wish : Wishes(q, wish) /\ Arrives(q, wish)
  <2> DEFINE version == account[u].version
             must == account[u].must
             wish == [Blank(u, "change") EXCEPT !.current = p, !.new = new,
                        !.version = version, !.must = must]
  <2>1. /\ request[q] = Nothing /\ Arrives(q, wish)
        /\ p \in Known(u)
    BY <1>6 DEF AskChange, Ask, Arrives
  <2>2. version \in Nat /\ must \in BOOLEAN
    BY <1>6, RolesAreTyped DEF Account
  <2>3. version = account[u].version /\ must = account[u].must
    OBVIOUS
  <2> HIDE DEF version, must
  <2>4. /\ wish \in Activity /\ wish.op = "change" /\ wish.pc = "queue"
        /\ wish.actor = u /\ wish.new = new /\ wish.current = p
        /\ wish.version = version /\ wish.must = must
    BY <2>2 DEF Blank, Activity, Ops, Passwords
  <2> HIDE DEF wish
  <2>5. Wishes(q, wish)
    BY <1>6, <2>1, <2>3, <2>4, NothingAssumption DEF Wishes
  <2> QED
    BY <2>1, <2>5
<1>7. ASSUME NEW s \in Sessions, Acceptable(s), NEW u, u = token[s].user,
             \/ \E v \in Users : \/ \E b \in BOOLEAN : AskActive(q, u, v, b)
                                 \/ \E roles \in SUBSET Roles : AskRoles(q, u, v, roles)
                                 \/ \E t \in Temporary : AskReset(q, u, v, t)
             \/ \E p \in Passwords, new \in Chosen : AskChange(q, u, p, new)
      PROVE  /\ request[q] = Nothing
             /\ \E wish : Wishes(q, wish) /\ Arrives(q, wish)
  <2>1. u \in Users /\ Exists(u)
    BY <1>2, <1>7
  <2> QED
    BY <1>3, <1>4, <1>5, <1>6, <1>7, <2>1
<1> QED
  BY <1>1, <1>7 DEF Arrive

(* A request passes its check; the one that changes a password has verified  *)
(* the present one.                                                          *)
Passes(q) ==
  /\ request[q] # Nothing /\ Goes(q, "write")
  /\ \/ request[q].op \in {"active", "roles"}
     \/ /\ request[q].op = "change"
        /\ request[q].current = account[request[q].actor].password

LEMMA Steps ==
  ASSUME TypeInv, [Next]_vars
  PROVE  \/ Calm
         \/ \E q \in Requests :
              \/ request[q] = Nothing /\ \E wish : Wishes(q, wish) /\ Arrives(q, wish)
              \/ Passes(q)
              \/ WriteChange(q)
              \/ Reset(q)
<1>1. CASE UNCHANGED vars
  BY <1>1, AccountsStay DEF vars, Calm, RequestsStay, TokensStay
<1>2. ASSUME NEW u \in Users, NEW p \in Chosen, SignUp(u, p) PROVE Calm
  BY <1>2, SignUpIsCalm
<1>3. ASSUME NEW s \in Sessions, Logout(s) \/ Expire(s) PROVE Calm
  BY <1>3, TokenGoesCalmly
<1>4. ASSUME NEW q \in Requests, Fail(q) PROVE Calm
  BY <1>4, RefusalIsCalm DEF Fail
<1>5. ASSUME NEW q \in Requests, Proceed(q)
      PROVE  Calm \/ Passes(q) \/ WriteChange(q) \/ Reset(q)
  <2>1. CASE LoginVerifies(q)
    BY <2>1, LoginEndsCalmly
  <2>2. CASE CheckActive(q)
    BY <2>2, RefusalIsCalm DEF CheckActive, Holds, Passes
  <2>3. CASE WriteActive(q)
    BY <2>3, ActivationIsCalm
  <2>4. CASE CheckRoles(q)
    BY <2>4, RefusalIsCalm DEF CheckRoles, Holds, Passes
  <2>5. CASE WriteRoles(q)
    BY <2>5, AssignmentIsCalm
  <2>6. CASE VerifyCurrent(q)
    BY <2>6, RefusalIsCalm DEF VerifyCurrent, Holds, Passes
  <2> QED
    BY <1>5, <2>1, <2>2, <2>3, <2>4, <2>5, <2>6 DEF Proceed
<1> QED
  BY <1>1, <1>2, <1>3, <1>4, <1>5, ArrivalsWish DEF Next

-----------------------------------------------------------------------------
(* A queued change that gives a generated password has loaded an account     *)
(* that is held to change it; past its check, nobody else has replaced the   *)
(* password it verified.                                                     *)
Promise(q) ==
  request[q] # Nothing =>
    /\ request[q].op = "change" =>
         /\ request[q].new \in Chosen
         /\ request[q].current \in Temporary => request[q].must
         /\ request[q].pc = "write" =>
              request[q].current = account[request[q].actor].password
    /\ request[q].op = "reset" => request[q].new \in Temporary

PasswordInv == ForcedUntilChosen /\ \A q \in Requests : Promise(q)

(* Two requests for the password lock are not both its head.                 *)
LEMMA OneHolder ==
  ASSUME TypeInv, NEW q \in Requests, NEW op, NEW pc, Holds(q, op, pc),
         op \in {"change", "reset"},
         NEW r \in Requests, request[r] # Nothing, request[r].pc = "write",
         request[r].op = "change"
  PROVE  r = q
<1>1. LockOf(request[r].op) = "password" /\ LockOf(op) = "password"
      /\ op = request[q].op /\ request[q] # Nothing
  BY DEF LockOf, Holds
<1>2. queue["password"] # << >> /\ queue["password"][1] = r
  BY <1>1 DEF TypeInv, HeadWrites
<1>3. queue["password"] \in Seq(Requests)
  BY DEF TypeInv, TypeOK, Locks
<1>4. Head(queue["password"]) = q
  BY <1>1 DEF Holds
<1> QED
  BY <1>2, <1>3, <1>4

LEMMA ReplacesPassword ==
  ASSUME TypeInv, NEW q \in Requests, NEW u \in Users, Exists(u),
         request[q].new \in Passwords,
         NEW must \in BOOLEAN, NEW version \in Nat, NEW behind \in Int,
         Replace(q, u, must, version, behind)
  PROVE  /\ account'[u] # Nothing /\ account'[u].password = request[q].new
         /\ account'[u].must = must /\ account'[u].version = version
         /\ \A v \in Users : v # u => account'[v] = account[v]
         /\ epoch'[u] = epoch[u] + 1 /\ lag'[u] = lag[u] + behind
         /\ \A v \in Users : v # u => epoch'[v] = epoch[v] /\ lag'[v] = lag[v]
         /\ request'[q] = Nothing
         /\ \A r \in Requests : r # q => request'[r] = request[r]
         /\ token' = token
<1> DEFINE row == [account[u] EXCEPT !.password = request[q].new, !.must = must,
                                     !.version = version]
<1>1. account[u] \in Account
  BY RolesAreTyped
<1>2. account' = [account EXCEPT ![u] = row] /\ account'[u] # Nothing
      /\ \A v \in Users : v # u => account'[v] = account[v]
  BY <1>1, Replaces DEF Replace, TypeInv, TypeOK
<1>3. /\ row.password = request[q].new /\ row.must = must /\ row.version = version
  BY <1>1 DEF Account
<1> HIDE DEF row
<1>4. account'[u] = row
  BY <1>2 DEF TypeInv, TypeOK
<1>5. /\ epoch'[u] = epoch[u] + 1 /\ lag'[u] = lag[u] + behind
      /\ \A v \in Users : v # u => epoch'[v] = epoch[v] /\ lag'[v] = lag[v]
  BY DEF Replace, TypeInv, TypeOK
<1>6. /\ request'[q] = Nothing /\ token' = token
      /\ \A r \in Requests : r # q => request'[r] = request[r]
  BY DEF Replace, Done, TypeInv, TypeOK
<1> QED
  BY <1>2, <1>3, <1>4, <1>5, <1>6

LEMMA Asker ==
  ASSUME TypeInv, NEW q \in Requests, request[q] # Nothing
  PROVE  /\ request[q].actor \in Users /\ Exists(request[q].actor)
         /\ request[q].target \in Users /\ Exists(request[q].target)
         /\ account[request[q].actor] \in Account
         /\ account[request[q].target] \in Account
         /\ request[q].version \in Nat /\ request[q].must \in BOOLEAN
<1>1. request[q] \in Activity /\ Carries(q)
  BY DEF TypeInv, TypeOK
<1> QED
  BY <1>1, RolesAreTyped DEF Carries, Activity

(* Who has just come in was not there before, and nothing else changed.      *)
LEMMA Arrived ==
  ASSUME TypeInv, NEW q \in Requests, NEW wish, Arrives(q, wish)
  PROVE  /\ request'[q] = wish
         /\ \A r \in Requests : r # q => request'[r] = request[r]
BY DEF Arrives, TypeInv, TypeOK

LEMMA Passed ==
  ASSUME TypeInv, NEW q \in Requests, Passes(q)
  PROVE  /\ request'[q] # Nothing
         /\ request'[q].op = request[q].op /\ request'[q].actor = request[q].actor
         /\ request'[q].target = request[q].target
         /\ request'[q].current = request[q].current
         /\ request'[q].new = request[q].new
         /\ request'[q].version = request[q].version
         /\ request'[q].must = request[q].must
         /\ \A r \in Requests : r # q => request'[r] = request[r]
         /\ UNCHANGED <<account, epoch, lag, token>>
<1> DEFINE act == [request[q] EXCEPT !.pc = "write"]
<1>1. request[q] \in Activity
  BY DEF Passes, TypeInv, TypeOK
<1>2. act \in Activity
  BY <1>1 DEF Activity
<1>3. request' = [request EXCEPT ![q] = act] /\ UNCHANGED <<account, epoch, lag, token>>
  BY DEF Passes, Goes
<1>4. /\ act.op = request[q].op /\ act.actor = request[q].actor
      /\ act.target = request[q].target /\ act.current = request[q].current
      /\ act.new = request[q].new /\ act.version = request[q].version
      /\ act.must = request[q].must
  BY <1>1 DEF Activity
<1> HIDE DEF act
<1>5. act # Nothing
  BY <1>2, NothingAssumption
<1>6. request'[q] = act /\ \A r \in Requests : r # q => request'[r] = request[r]
  BY <1>3 DEF TypeInv, TypeOK
<1> QED
  BY <1>3, <1>4, <1>5, <1>6

(* The change that is written is of the password that was verified.          *)
LEMMA WritesChange ==
  ASSUME TypeInv, PasswordInv, NEW q \in Requests, WriteChange(q)
  PROVE  LET u == request[q].actor IN
         /\ Holds(q, "change", "write")
         /\ request[q] # Nothing /\ request[q].op = "change"
         /\ u \in Users /\ Exists(u)
         /\ account[u].password = request[q].current
         /\ account'[u] # Nothing /\ account'[u].password = request[q].new
         /\ account'[u].must = FALSE /\ account'[u].version = request[q].version + 1
         /\ \A v \in Users : v # u => account'[v] = account[v]
         /\ epoch'[u] = epoch[u] + 1
         /\ lag'[u] = lag[u] + (account[u].version - request[q].version)
         /\ \A v \in Users : v # u => epoch'[v] = epoch[v] /\ lag'[v] = lag[v]
         /\ request'[q] = Nothing
         /\ \A r \in Requests : r # q => request'[r] = request[r]
         /\ token' = token
<1> DEFINE u == request[q].actor
           must == account[u].must /\ ~request[q].must
           version == request[q].version + 1
           behind == account[u].version - request[q].version
<1>1. /\ Holds(q, "change", "write") /\ Replace(q, u, must, version, behind)
      /\ request[q] # Nothing /\ request[q].op = "change" /\ request[q].pc = "write"
  BY DEF WriteChange, Holds
<1>2. /\ u \in Users /\ Exists(u) /\ account[u] \in Account
      /\ request[q].version \in Nat /\ request[q].must \in BOOLEAN
  BY <1>1, Asker
<1>3. account[u].password = request[q].current
  BY <1>1 DEF PasswordInv, Promise
<1>4. must = FALSE
  <2>1. account[u].must \in BOOLEAN
    BY <1>2 DEF Account
  <2>2. account[u].must => request[q].must
    BY <1>1, <1>2, <1>3 DEF PasswordInv, Promise, ForcedUntilChosen
  <2> QED
    BY <1>2, <2>1, <2>2
<1>5. request[q].new \in Passwords
  BY <1>1 DEF TypeInv, Carries
<1>6. must \in BOOLEAN /\ version \in Nat /\ behind \in Int
  BY <1>2, <1>4 DEF Account
<1>7. /\ version = request[q].version + 1
      /\ behind = account[u].version - request[q].version
  OBVIOUS
<1> HIDE DEF must, version, behind, u
<1>8. /\ account'[u] # Nothing /\ account'[u].password = request[q].new
      /\ account'[u].must = must /\ account'[u].version = version
      /\ \A v \in Users : v # u => account'[v] = account[v]
      /\ epoch'[u] = epoch[u] + 1 /\ lag'[u] = lag[u] + behind
      /\ \A v \in Users : v # u => epoch'[v] = epoch[v] /\ lag'[v] = lag[v]
      /\ request'[q] = Nothing
      /\ \A r \in Requests : r # q => request'[r] = request[r]
      /\ token' = token
  BY <1>1, <1>2, <1>5, <1>6, ReplacesPassword
<1> QED
  BY <1>1, <1>2, <1>3, <1>4, <1>7, <1>8 DEF u

LEMMA Resets ==
  ASSUME TypeInv, NEW q \in Requests, Reset(q)
  PROVE  LET u == request[q].target IN
         /\ Holds(q, "reset", "queue")
         /\ request[q] # Nothing /\ request[q].op = "reset"
         /\ u \in Users /\ Exists(u)
         /\ account'[u] # Nothing /\ account'[u].password = request[q].new
         /\ account'[u].must = TRUE /\ account'[u].version = account[u].version + 1
         /\ \A v \in Users : v # u => account'[v] = account[v]
         /\ epoch'[u] = epoch[u] + 1 /\ lag'[u] = lag[u] + 0
         /\ \A v \in Users : v # u => epoch'[v] = epoch[v] /\ lag'[v] = lag[v]
         /\ request'[q] = Nothing
         /\ \A r \in Requests : r # q => request'[r] = request[r]
         /\ token' = token
<1> DEFINE u == request[q].target
           version == account[u].version + 1
<1>0. PICK behind \in Int : behind = 0
  OBVIOUS
<1>0a. PICK must : must = TRUE
  OBVIOUS
<1>0b. must \in BOOLEAN
  BY <1>0a
<1>1. /\ Holds(q, "reset", "queue") /\ Replace(q, u, must, version, behind)
      /\ request[q] # Nothing /\ request[q].op = "reset"
  BY <1>0, <1>0a DEF Reset, Holds
<1>2. u \in Users /\ Exists(u) /\ account[u] \in Account
  BY <1>1, Asker
<1>3. request[q].new \in Passwords
  BY <1>1 DEF TypeInv, Carries
<1>4. version \in Nat /\ version = account[u].version + 1
  BY <1>2 DEF Account
<1> HIDE DEF version, u
<1>5. /\ account'[u] # Nothing /\ account'[u].password = request[q].new
      /\ account'[u].must = must /\ account'[u].version = version
      /\ \A v \in Users : v # u => account'[v] = account[v]
      /\ epoch'[u] = epoch[u] + 1 /\ lag'[u] = lag[u] + behind
      /\ \A v \in Users : v # u => epoch'[v] = epoch[v] /\ lag'[v] = lag[v]
      /\ request'[q] = Nothing
      /\ \A r \in Requests : r # q => request'[r] = request[r]
      /\ token' = token
  BY <1>0b, <1>1, <1>2, <1>3, <1>4, ReplacesPassword
<1> QED
  BY <1>0, <1>0a, <1>1, <1>2, <1>4, <1>5 DEF u

LEMMA PasswordStep ==
  ASSUME TypeInv, PasswordInv, [Next]_vars
  PROVE  PasswordInv'
<1>1. CASE Calm
  <2>1. ForcedUntilChosen'
    <3>1. ASSUME NEW u \in Users, Exists(u)'
          PROVE  account'[u].must <=> account'[u].password \in Temporary
      <4>1. CASE Exists(u)
        BY <1>1, <4>1 DEF Calm, CredentialsStay, PasswordInv, ForcedUntilChosen
      <4>2. CASE ~Exists(u)
        BY <1>1, <3>1, <4>2, PasswordsAssumption DEF Calm, NewcomersChoose
      <4> QED
        BY <4>1, <4>2
    <3> QED
      BY <3>1 DEF ForcedUntilChosen
  <2>2. ASSUME NEW q \in Requests, request'[q] # Nothing PROVE Promise(q)'
    <3>1. /\ request[q] # Nothing
          /\ request'[q].op = request[q].op /\ request'[q].pc = request[q].pc
          /\ request'[q].actor = request[q].actor
          /\ request'[q].current = request[q].current
          /\ request'[q].new = request[q].new
          /\ request'[q].must = request[q].must
      BY <1>1, <2>2 DEF Calm, RequestsStay
    <3>2. account'[request[q].actor].password = account[request[q].actor].password
      BY <1>1, <3>1, Asker DEF Calm, CredentialsStay
    <3> QED
      BY <3>1, <3>2 DEF PasswordInv, Promise
  <2>3. \A q \in Requests : Promise(q)'
    BY <2>2 DEF Promise
  <2> QED
    BY <2>1, <2>3 DEF PasswordInv
<1>2. ASSUME NEW q \in Requests, request[q] = Nothing, NEW wish,
             Wishes(q, wish), Arrives(q, wish)
      PROVE  PasswordInv'
  <2>1. /\ request'[q] = wish /\ account' = account
        /\ \A r \in Requests : r # q => request'[r] = request[r]
    BY <1>2, Arrived DEF Arrives
  <2>2. ForcedUntilChosen'
    BY <2>1 DEF PasswordInv, ForcedUntilChosen, Exists
  <2>3. ASSUME wish.op = "change" PROVE wish.current \in Temporary => wish.must
    <3>1. /\ wish.current \in Known(wish.actor) /\ Exists(wish.actor)
          /\ wish.must = account[wish.actor].must
      BY <1>2, <2>3 DEF Wishes
    <3>2. CASE wish.current = account[wish.actor].password
      <4>1. wish.actor \in Users
        BY <1>2 DEF Wishes
      <4> QED
        BY <3>1, <3>2, <4>1 DEF PasswordInv, ForcedUntilChosen
    <3>3. CASE wish.current # account[wish.actor].password
      <4>1. PICK r \in Requests : request[r] # Nothing /\ request[r].op = "change"
                                  /\ wish.current = request[r].new
        BY <3>1, <3>3 DEF Known
      <4> QED
        BY <4>1, PasswordsAssumption DEF PasswordInv, Promise
    <3> QED
      BY <3>2, <3>3
  <2>4. Promise(q)'
    BY <1>2, <2>1, <2>3 DEF Promise, Wishes
  <2>5. \A r \in Requests : r # q => Promise(r)'
    BY <2>1 DEF Promise, PasswordInv
  <2> QED
    BY <2>2, <2>4, <2>5 DEF PasswordInv
<1>3. ASSUME NEW q \in Requests, Passes(q) PROVE PasswordInv'
  <2>1. ForcedUntilChosen'
    BY <1>3, Passed DEF PasswordInv, ForcedUntilChosen, Exists
  <2>2. Promise(q)'
    BY <1>3, Passed DEF PasswordInv, Promise, Passes
  <2>3. \A r \in Requests : r # q => Promise(r)'
    BY <1>3, Passed DEF PasswordInv, Promise
  <2> QED
    BY <2>1, <2>2, <2>3 DEF PasswordInv
<1>4. ASSUME NEW q \in Requests, NEW u \in Users, NEW op, NEW pc, Holds(q, op, pc),
             op \in {"change", "reset"}, request'[q] = Nothing,
             \A r \in Requests : r # q => request'[r] = request[r]
      PROVE  \A r \in Requests : Promise(r)'
  <2>1. ASSUME NEW r \in Requests, r # q, request[r] # Nothing PROVE Promise(r)'
    <3>1. ~(request[r].op = "change" /\ request[r].pc = "write")
      BY <1>4, <2>1, OneHolder
    <3> QED
      BY <1>4, <2>1, <3>1 DEF PasswordInv, Promise
  <2> QED
    BY <1>4, <2>1 DEF Promise
<1>5. ASSUME NEW q \in Requests, WriteChange(q) PROVE PasswordInv'
  <2> DEFINE u == request[q].actor
  <2>1. /\ Holds(q, "change", "write")
        /\ request[q] # Nothing /\ request[q].op = "change"
        /\ u \in Users /\ account'[u].password = request[q].new
        /\ account'[u].must = FALSE
        /\ \A v \in Users : v # u => account'[v] = account[v]
        /\ request'[q] = Nothing
        /\ \A r \in Requests : r # q => request'[r] = request[r]
    BY <1>5, WritesChange
  <2>2. request[q].new \in Chosen
    BY <2>1 DEF PasswordInv, Promise
  <2>3. ForcedUntilChosen'
    BY <2>1, <2>2, PasswordsAssumption DEF PasswordInv, ForcedUntilChosen, Exists
  <2>4. \A r \in Requests : Promise(r)'
    BY <1>4, <2>1
  <2> QED
    BY <2>3, <2>4 DEF PasswordInv
<1>6. ASSUME NEW q \in Requests, Reset(q) PROVE PasswordInv'
  <2> DEFINE u == request[q].target
  <2>1. /\ Holds(q, "reset", "queue")
        /\ request[q] # Nothing /\ request[q].op = "reset"
        /\ u \in Users /\ account'[u].password = request[q].new
        /\ account'[u].must = TRUE
        /\ \A v \in Users : v # u => account'[v] = account[v]
        /\ request'[q] = Nothing
        /\ \A r \in Requests : r # q => request'[r] = request[r]
    BY <1>6, Resets
  <2>2. request[q].new \in Temporary
    BY <2>1 DEF PasswordInv, Promise
  <2>3. ForcedUntilChosen'
    BY <2>1, <2>2 DEF PasswordInv, ForcedUntilChosen, Exists
  <2>4. \A r \in Requests : Promise(r)'
    BY <1>4, <2>1
  <2> QED
    BY <2>3, <2>4 DEF PasswordInv
<1> QED
  BY <1>1, <1>2, <1>3, <1>5, <1>6, Steps

LEMMA PasswordInit == Init => PasswordInv
<1> SUFFICES ASSUME Init PROVE PasswordInv
  OBVIOUS
<1> DEFINE p == CHOOSE c \in Chosen : TRUE
<1>1. p \in Chosen
  BY UsersAssumption
<1> HIDE DEF p
<1>2. \A u \in Users : Exists(u) => account[u] = Registered({"ADMIN"}, p)
  BY DEF Init, Exists, p
<1>3. ForcedUntilChosen
  BY <1>1, <1>2, PasswordsAssumption DEF ForcedUntilChosen, Registered
<1> QED
  BY <1>3 DEF PasswordInv, Promise, Init

(* An account is held to change its password exactly while it has the one    *)
(* that a reset generated: admin_reset_password sets the flag for whatever   *)
(* was there, and a change that change_own_password finds queued before or   *)
(* after it clears the flag only if it gave the generated password.  Any     *)
(* number of changes may overlap.                                            *)
THEOREM ForcedChanges == Spec => []ForcedUntilChosen
<1>1. Init => TypeInv
  BY TypeInit
<1>2. Init => PasswordInv
  BY PasswordInit
<1>3. TypeInv /\ [Next]_vars => TypeInv'
  BY TypeStep
<1>4. TypeInv /\ PasswordInv /\ [Next]_vars => PasswordInv'
  BY PasswordStep
<1>5. PasswordInv => ForcedUntilChosen
  BY DEF PasswordInv
<1> QED
  BY <1>1, <1>2, <1>3, <1>4, <1>5, PTL DEF Spec

-----------------------------------------------------------------------------
(* Nobody asks for a change with a password that another change of the same  *)
(* account, still on its way, is about to set.                               *)
Unanticipated ==
  \A q, r \in Requests :
    /\ request[q] # Nothing /\ request[q].op = "change"
    /\ request[r] # Nothing /\ request[r].op = "change"
    /\ q # r /\ request[q].actor = request[r].actor
    => request[q].current # request[r].new

(* No token is ahead of its account, and one that is level with it was       *)
(* issued for the present password.                                          *)
Level(s) ==
  token[s] # Nothing =>
    /\ token[s].version <= account[token[s].user].version
    /\ token[s].version = account[token[s].user].version =>
         token[s].epoch = epoch[token[s].user]

(* A change that loaded an older version than the present one gives an older *)
(* password too: it is going to be refused.                                  *)
Loaded(q) ==
  request[q] # Nothing =>
    /\ request[q].op = "login" =>
         request[q].version <= account[request[q].actor].version
    /\ request[q].op = "change" =>
         \/ request[q].version = account[request[q].actor].version
         \/ request[q].current # account[request[q].actor].password

(* What a reset is about to set is no account's password and nobody's guess. *)
Fresh(r) ==
  request[r] # Nothing /\ request[r].op = "reset" =>
    /\ \A u \in Users : Exists(u) => account[u].password # request[r].new
    /\ \A q \in Requests : q # r /\ request[q] # Nothing =>
         /\ request[q].op = "reset" => request[q].new # request[r].new
         /\ request[q].op = "change" => request[q].current # request[r].new

SessionInv == /\ \A s \in Sessions : Level(s)
              /\ \A q \in Requests : Loaded(q) /\ Fresh(q)

(* A token was issued to an account that is there.                           *)
LEMMA Holder ==
  ASSUME TypeInv, NEW s \in Sessions, token[s] # Nothing
  PROVE  /\ token[s].user \in Users /\ Exists(token[s].user)
         /\ token[s].version \in Nat /\ account[token[s].user].version \in Nat
<1>1. token[s] \in Token /\ Exists(token[s].user)
  BY DEF TypeInv, TypeOK, TokensHaveUsers
<1> QED
  BY <1>1, RolesAreTyped DEF Token, Account

LEMMA CalmSessions ==
  ASSUME TypeInv, PasswordInv, SessionInv, Calm
  PROVE  SessionInv'
<1>1. \A u \in Users : Exists(u) =>
        /\ account'[u].password = account[u].password
        /\ account'[u].version = account[u].version
  BY DEF Calm, CredentialsStay
<1>2. ASSUME NEW s \in Sessions, token'[s] # Nothing PROVE Level(s)'
  <2>1. CASE token'[s] = token[s]
    <3>1. token[s].user \in Users /\ Exists(token[s].user)
      BY <1>2, <2>1, Holder
    <3>2. account'[token[s].user].version = account[token[s].user].version
      BY <1>1, <3>1
    <3> QED
      BY <1>2, <2>1, <3>2 DEF SessionInv, Level, Calm
  <2>2. ASSUME NEW q \in Requests, request[q] # Nothing, request[q].op = "login",
               token'[s] = Issued(request[q].actor, request[q].version)
        PROVE  Level(s)'
    <3>1. request[q].actor \in Users /\ Exists(request[q].actor)
      BY <2>2, Asker
    <3>2. account'[request[q].actor].version = account[request[q].actor].version
      BY <1>1, <3>1
    <3>3. request[q].version <= account[request[q].actor].version
      BY <2>2 DEF SessionInv, Loaded
    <3>4. /\ token'[s].user = request[q].actor /\ token'[s].version = request[q].version
          /\ token'[s].epoch = epoch[request[q].actor]
      BY <2>2 DEF Issued
    <3>5. epoch' = epoch
      BY DEF Calm
    <3> QED
      BY <3>2, <3>3, <3>4, <3>5 DEF Level
  <2> QED
    BY <1>2, <2>1, <2>2 DEF Calm, TokensStay
<1>3. ASSUME NEW q \in Requests, request'[q] # Nothing
      PROVE  /\ request[q] # Nothing /\ request'[q].op = request[q].op
             /\ request'[q].actor = request[q].actor
             /\ request'[q].current = request[q].current
             /\ request'[q].new = request[q].new
             /\ request'[q].version = request[q].version
             /\ request[q].actor \in Users /\ Exists(request[q].actor)
  BY <1>3, Asker DEF Calm, RequestsStay
<1>4. ASSUME NEW q \in Requests, request'[q] # Nothing PROVE Loaded(q)'
  BY <1>1, <1>3, <1>4 DEF SessionInv, Loaded
<1>5. ASSUME NEW r \in Requests, request'[r] # Nothing, request'[r].op = "reset"
      PROVE  Fresh(r)'
  <2>1. request[r].new \in Temporary /\ request'[r].new = request[r].new
        /\ request[r] # Nothing /\ request[r].op = "reset"
    BY <1>3, <1>5 DEF PasswordInv, Promise
  <2>2. ASSUME NEW u \in Users, Exists(u)' PROVE account'[u].password # request[r].new
    <3>1. CASE Exists(u)
      BY <1>1, <2>1, <3>1 DEF SessionInv, Fresh
    <3>2. CASE ~Exists(u)
      BY <2>1, <2>2, <3>2, PasswordsAssumption DEF Calm, NewcomersChoose
    <3> QED
      BY <3>1, <3>2
  <2>3. ASSUME NEW q \in Requests, q # r, request'[q] # Nothing
        PROVE  /\ request'[q].op = "reset" => request'[q].new # request[r].new
               /\ request'[q].op = "change" => request'[q].current # request[r].new
    BY <1>3, <2>1, <2>3 DEF SessionInv, Fresh
  <2> QED
    BY <2>1, <2>2, <2>3 DEF Fresh
<1> QED
  BY <1>2, <1>4, <1>5 DEF SessionInv, Level, Loaded, Fresh

LEMMA ArrivalSessions ==
  ASSUME TypeInv, PasswordInv, SessionInv, NEW q \in Requests, NEW wish,
         Wishes(q, wish), Arrives(q, wish)
  PROVE  SessionInv'
<1>1. /\ request'[q] = wish /\ UNCHANGED <<account, epoch, lag, token>>
      /\ \A r \in Requests : r # q => request'[r] = request[r]
  BY Arrived DEF Arrives
<1>2. \A s \in Sessions : Level(s)'
  BY <1>1 DEF SessionInv, Level
<1>3. \A r \in Requests : r # q => Loaded(r)'
  BY <1>1 DEF SessionInv, Loaded
<1>4. Loaded(q)'
  <2>1. account[wish.actor].version \in Nat
    BY RolesAreTyped DEF Wishes, Account
  <2> QED
    BY <1>1, <2>1 DEF Loaded, Wishes
<1>5. ASSUME wish.op = "reset" PROVE Fresh(q)'
  BY <1>1, <1>5 DEF Fresh, Wishes, Exists
<1>6. ASSUME NEW r \in Requests, r # q, request[r] # Nothing, request[r].op = "reset"
      PROVE  Fresh(r)'
  <2>1. request[r].new \in Temporary
    BY <1>6 DEF PasswordInv, Promise
  <2>2. ASSUME wish.op = "change" PROVE wish.current # request[r].new
    <3>1. wish.current \in Known(wish.actor) /\ wish.actor \in Users /\ Exists(wish.actor)
      BY <2>2 DEF Wishes
    <3>2. account[wish.actor].password # request[r].new
      BY <1>6, <3>1 DEF SessionInv, Fresh
    <3>3. \A c \in Requests : request[c] # Nothing /\ request[c].op = "change" =>
            request[c].new # request[r].new
      BY <2>1, PasswordsAssumption DEF PasswordInv, Promise
    <3> QED
      BY <3>1, <3>2, <3>3 DEF Known
  <2>3. ASSUME wish.op = "reset" PROVE wish.new # request[r].new
    BY <1>6, <2>3 DEF Wishes
  <2>4. Fresh(r)
    BY DEF SessionInv
  <2> QED
    BY <1>1, <1>6, <2>2, <2>3, <2>4 DEF Fresh, Exists
<1> QED
  BY <1>1, <1>2, <1>3, <1>4, <1>5, <1>6 DEF SessionInv, Fresh

LEMMA PassSessions ==
  ASSUME TypeInv, SessionInv, NEW q \in Requests, Passes(q)
  PROVE  SessionInv'
<1>1. /\ request'[q] # Nothing /\ request[q] # Nothing
      /\ request'[q].op = request[q].op /\ request'[q].actor = request[q].actor
      /\ request'[q].current = request[q].current
      /\ request'[q].new = request[q].new
      /\ request'[q].version = request[q].version
      /\ \A r \in Requests : r # q => request'[r] = request[r]
      /\ UNCHANGED <<account, epoch, lag, token>>
  BY Passed DEF Passes
<1>2. \A s \in Sessions : Level(s)'
  BY <1>1 DEF SessionInv, Level
<1>3. ASSUME NEW r \in Requests PROVE Loaded(r)'
  <2>1. CASE r = q
    BY <1>1, <2>1 DEF SessionInv, Loaded
  <2>2. CASE r # q
    BY <1>1, <2>2 DEF SessionInv, Loaded
  <2> QED
    BY <2>1, <2>2
<1>4. ASSUME NEW r \in Requests PROVE Fresh(r)'
  <2>1. \A c \in Requests : request'[c] # Nothing =>
          /\ request[c] # Nothing
          /\ request'[c].op = request[c].op /\ request'[c].new = request[c].new
          /\ request'[c].current = request[c].current
    BY <1>1
  <2> QED
    BY <1>1, <2>1 DEF SessionInv, Fresh, Exists
<1> QED
  BY <1>2, <1>3, <1>4 DEF SessionInv

(* The password of u is replaced by one that no request in flight has given  *)
(* for it, and u moves on to a version of its own.                           *)
LEMMA ReplacedSessions ==
  ASSUME TypeInv, SessionInv, NEW q \in Requests, NEW u \in Users, Exists(u),
         account'[u] # Nothing, account'[u].password = request[q].new,
         account'[u].version = account[u].version + 1,
         \A v \in Users : v # u => account'[v] = account[v] /\ epoch'[v] = epoch[v],
         request'[q] = Nothing,
         \A r \in Requests : r # q => request'[r] = request[r],
         token' = token,
         \A r \in Requests : r # q /\ request[r] # Nothing =>
           /\ request[r].op = "change" /\ request[r].actor = u =>
                request[r].current # request[q].new
           /\ request[r].op = "reset" => request[r].new # request[q].new
  PROVE  SessionInv'
<1>1. account[u].version \in Nat
  BY RolesAreTyped DEF Account
<1>2. ASSUME NEW s \in Sessions, token[s] # Nothing PROVE Level(s)'
  <2>1. /\ token[s].user \in Users /\ token[s].version \in Nat
    BY <1>2, Holder
  <2>2. CASE token[s].user = u
    <3>1. token[s].version <= account[u].version
      BY <1>2, <2>2 DEF SessionInv, Level
    <3>2. /\ token[s].version <= account[u].version + 1
          /\ token[s].version # account[u].version + 1
      BY <1>1, <2>1, <3>1
    <3> QED
      BY <2>2, <3>2 DEF Level
  <2>3. CASE token[s].user # u
    BY <2>1, <2>3 DEF SessionInv, Level
  <2> QED
    BY <2>2, <2>3
<1>3. ASSUME NEW r \in Requests, r # q, request[r] # Nothing PROVE Loaded(r)'
  <2>1. request[r].actor \in Users /\ request[r].version \in Nat
    BY <1>3, Asker
  <2>2. CASE request[r].actor = u
    <3>1. request[r].op = "login" => request[r].version <= account[u].version + 1
      BY <1>1, <1>3, <2>1, <2>2 DEF SessionInv, Loaded
    <3> QED
      BY <1>3, <2>2, <3>1 DEF Loaded
  <2>3. CASE request[r].actor # u
    BY <1>3, <2>1, <2>3 DEF SessionInv, Loaded
  <2> QED
    BY <2>2, <2>3
<1>4. ASSUME NEW r \in Requests, r # q, request[r] # Nothing, request[r].op = "reset"
      PROVE  Fresh(r)'
  <2>1. \A v \in Users : Exists(v)' => account'[v].password # request[r].new
    BY <1>4 DEF SessionInv, Fresh, Exists
  <2> QED
    BY <1>4, <2>1 DEF SessionInv, Fresh
<1> QED
  BY <1>2, <1>3, <1>4 DEF SessionInv, Level, Loaded, Fresh

LEMMA SessionStep ==
  ASSUME TypeInv, PasswordInv, SessionInv, Unanticipated, [Next]_vars
  PROVE  SessionInv'
<1>1. ASSUME NEW q \in Requests, WriteChange(q) PROVE SessionInv'
  <2> DEFINE u == request[q].actor
  <2>1. /\ request[q] # Nothing /\ request[q].op = "change"
        /\ u \in Users /\ Exists(u)
        /\ account[u].password = request[q].current
        /\ account'[u] # Nothing /\ account'[u].password = request[q].new
        /\ account'[u].version = request[q].version + 1
        /\ \A v \in Users : v # u => account'[v] = account[v] /\ epoch'[v] = epoch[v]
        /\ request'[q] = Nothing
        /\ \A r \in Requests : r # q => request'[r] = request[r]
        /\ token' = token
    BY <1>1, WritesChange
  <2>2. request[q].version = account[u].version
    BY <2>1 DEF SessionInv, Loaded
  <2>3. ASSUME NEW r \in Requests, r # q, request[r] # Nothing
        PROVE  /\ request[r].op = "change" /\ request[r].actor = u =>
                    request[r].current # request[q].new
               /\ request[r].op = "reset" => request[r].new # request[q].new
    <3>1. request[q].new \in Chosen
      BY <2>1 DEF PasswordInv, Promise
    <3>2. request[r].op = "reset" => request[r].new \in Temporary
      BY <2>3 DEF PasswordInv, Promise
    <3> QED
      BY <2>1, <2>3, <3>1, <3>2, PasswordsAssumption DEF Unanticipated
  <2> HIDE DEF u
  <2> QED
    BY <2>1, <2>2, <2>3, ReplacedSessions
<1>2. ASSUME NEW q \in Requests, Reset(q) PROVE SessionInv'
  <2> DEFINE u == request[q].target
  <2>1. /\ request[q] # Nothing /\ request[q].op = "reset"
        /\ u \in Users /\ Exists(u)
        /\ account'[u] # Nothing /\ account'[u].password = request[q].new
        /\ account'[u].version = account[u].version + 1
        /\ \A v \in Users : v # u => account'[v] = account[v] /\ epoch'[v] = epoch[v]
        /\ request'[q] = Nothing
        /\ \A r \in Requests : r # q => request'[r] = request[r]
        /\ token' = token
    BY <1>2, Resets
  <2>2. \A r \in Requests : r # q /\ request[r] # Nothing =>
          /\ request[r].op = "change" => request[r].current # request[q].new
          /\ request[r].op = "reset" => request[r].new # request[q].new
    BY <2>1 DEF SessionInv, Fresh
  <2> HIDE DEF u
  <2> QED
    BY <2>1, <2>2, ReplacedSessions
<1> QED
  BY <1>1, <1>2, Steps, CalmSessions, ArrivalSessions, PassSessions

LEMMA SessionInit == Init => SessionInv
<1> SUFFICES ASSUME Init PROVE SessionInv
  OBVIOUS
<1>1. /\ \A s \in Sessions : token[s] = Nothing
      /\ \A q \in Requests : request[q] = Nothing
  BY DEF Init
<1> QED
  BY <1>1 DEF SessionInv, Level, Loaded, Fresh

(* A token that counts names the account's version, and is then level.       *)
LEMMA LevelTokensAreCurrent == SessionInv => OldSessionsDie
<1> SUFFICES ASSUME SessionInv, NEW s \in Sessions, Acceptable(s)
             PROVE  token[s].epoch = epoch[token[s].user]
  BY DEF OldSessionsDie
<1> QED
  BY DEF SessionInv, Level, Acceptable

(* "all existing sessions die" with the password they were opened with, for  *)
(* any number of logins, resets and changes in flight, as long as no change  *)
(* gives a password that another change of the same account is about to set: *)
(* change_own_password counts on from the version it loaded before the lock, *)
(* and only the check of the current password tells that it is an old one.   *)
THEOREM SessionsDie == Spec /\ []Unanticipated => []OldSessionsDie
<1>1. Init => TypeInv /\ PasswordInv /\ SessionInv
  BY TypeInit, PasswordInit, SessionInit
<1>2. /\ TypeInv /\ PasswordInv /\ SessionInv /\ Unanticipated /\ [Next]_vars
      => TypeInv' /\ PasswordInv' /\ SessionInv'
  BY TypeStep, PasswordStep, SessionStep
<1>3. SessionInv => OldSessionsDie
  BY LevelTokensAreCurrent
<1> QED
  BY <1>1, <1>2, <1>3, PTL DEF Spec

-----------------------------------------------------------------------------
(* The version of an account is the number of its passwords, less what was   *)
(* lost where a change counted on from a version that was behind.            *)
Counted(u) ==
  /\ Exists(u) => /\ account[u].version + lag[u] = epoch[u] + 1
                  /\ account[u].version <= epoch[u] + 1
  /\ ~Exists(u) => epoch[u] = 0 /\ lag[u] = 0

(* Neither a token nor a request is ahead of the count.                      *)
TokenCounted(s) ==
  token[s] # Nothing => token[s].version <= token[s].epoch + 1

RequestCounted(q) ==
  request[q] # Nothing /\ request[q].op \in {"login", "change"} =>
    request[q].version <= epoch[request[q].actor] + 1

CountInv == /\ \A u \in Users : Counted(u)
            /\ \A s \in Sessions : TokenCounted(s)
            /\ \A q \in Requests : RequestCounted(q)

LEMMA Counts ==
  ASSUME TypeInv, NEW u \in Users
  PROVE  /\ epoch[u] \in Nat /\ lag[u] \in Int
         /\ Exists(u) => account[u].version \in Nat
BY RolesAreTyped DEF TypeInv, TypeOK, Account

LEMMA CalmCounts ==
  ASSUME TypeInv, CountInv, Calm
  PROVE  CountInv'
<1>1. ASSUME NEW u \in Users PROVE Counted(u)'
  <2>1. CASE Exists(u)
    BY <2>1 DEF Calm, CredentialsStay, CountInv, Counted
  <2>2. CASE ~Exists(u)
    BY <2>2 DEF Calm, NewcomersChoose, CountInv, Counted
  <2> QED
    BY <2>1, <2>2
<1>2. ASSUME NEW s \in Sessions, token'[s] # Nothing PROVE TokenCounted(s)'
  <2>1. CASE token'[s] = token[s]
    BY <1>2, <2>1 DEF CountInv, TokenCounted
  <2>2. ASSUME NEW q \in Requests, request[q] # Nothing, request[q].op = "login",
               token'[s] = Issued(request[q].actor, request[q].version)
        PROVE  TokenCounted(s)'
    BY <2>2 DEF CountInv, RequestCounted, TokenCounted, Issued
  <2> QED
    BY <1>2, <2>1, <2>2 DEF Calm, TokensStay
<1>3. ASSUME NEW q \in Requests PROVE RequestCounted(q)'
  BY DEF Calm, RequestsStay, CountInv, RequestCounted
<1> QED
  BY <1>1, <1>2, <1>3 DEF CountInv, TokenCounted

LEMMA ArrivalCounts ==
  ASSUME TypeInv, CountInv, NEW q \in Requests, NEW wish,
         Wishes(q, wish), Arrives(q, wish)
  PROVE  CountInv'
<1>1. /\ request'[q] = wish /\ UNCHANGED <<account, epoch, lag, token>>
      /\ \A r \in Requests : r # q => request'[r] = request[r]
  BY Arrived DEF Arrives
<1>2. \A u \in Users : Counted(u)'
  BY <1>1 DEF CountInv, Counted, Exists
<1>3. \A s \in Sessions : TokenCounted(s)'
  BY <1>1 DEF CountInv, TokenCounted
<1>4. RequestCounted(q)'
  BY <1>1 DEF Wishes, CountInv, Counted, RequestCounted
<1>5. \A r \in Requests : r # q => RequestCounted(r)'
  BY <1>1 DEF CountInv, RequestCounted
<1> QED
  BY <1>2, <1>3, <1>4, <1>5 DEF CountInv

LEMMA PassCounts ==
  ASSUME TypeInv, CountInv, NEW q \in Requests, Passes(q)
  PROVE  CountInv'
<1>1. /\ request'[q] # Nothing /\ request[q] # Nothing
      /\ request'[q].op = request[q].op /\ request'[q].actor = request[q].actor
      /\ request'[q].version = request[q].version
      /\ \A r \in Requests : r # q => request'[r] = request[r]
      /\ UNCHANGED <<account, epoch, lag, token>>
  BY Passed DEF Passes
<1>2. \A u \in Users : Counted(u)'
  BY <1>1 DEF CountInv, Counted, Exists
<1>3. \A s \in Sessions : TokenCounted(s)'
  BY <1>1 DEF CountInv, TokenCounted
<1>4. RequestCounted(q)'
  BY <1>1 DEF CountInv, RequestCounted
<1>5. \A r \in Requests : r # q => RequestCounted(r)'
  BY <1>1 DEF CountInv, RequestCounted
<1> QED
  BY <1>2, <1>3, <1>4, <1>5 DEF CountInv

(* The password of u is replaced under the successor of a version.           *)
LEMMA ReplacementCounts ==
  ASSUME TypeInv, CountInv, NEW q \in Requests, NEW u \in Users, Exists(u),
         NEW version \in Nat, version <= epoch[u] + 1,
         account'[u] # Nothing, account'[u].version = version + 1,
         epoch'[u] = epoch[u] + 1,
         lag'[u] = lag[u] + (account[u].version - version),
         \A v \in Users : v # u => /\ account'[v] = account[v]
                                  /\ epoch'[v] = epoch[v] /\ lag'[v] = lag[v],
         request'[q] = Nothing,
         \A r \in Requests : r # q => request'[r] = request[r],
         token' = token
  PROVE  CountInv'
<1>1. ASSUME NEW v \in Users PROVE Counted(v)'
  <2>1. CASE v = u
    <3>1. /\ account[u].version \in Nat /\ epoch[u] \in Nat /\ lag[u] \in Int
          /\ account[u].version + lag[u] = epoch[u] + 1
      BY Counts DEF CountInv, Counted
    <3>2. /\ (version + 1) + (lag[u] + (account[u].version - version))
                = (epoch[u] + 1) + 1
          /\ version + 1 <= (epoch[u] + 1) + 1
      BY <3>1
    <3> QED
      BY <2>1, <3>2 DEF Counted, Exists
  <2>2. CASE v # u
    BY <2>2 DEF CountInv, Counted, Exists
  <2> QED
    BY <2>1, <2>2
<1>2. \A s \in Sessions : TokenCounted(s)'
  BY DEF CountInv, TokenCounted
<1>3. ASSUME NEW r \in Requests, r # q, request[r] # Nothing,
             request[r].op \in {"login", "change"}
      PROVE  request[r].version <= epoch'[request[r].actor] + 1
  <2>1. /\ request[r].actor \in Users /\ request[r].version \in Nat
        /\ epoch[request[r].actor] \in Nat
        /\ request[r].version <= epoch[request[r].actor] + 1
    BY <1>3, Asker, Counts DEF CountInv, RequestCounted
  <2> QED
    BY <2>1
<1>4. \A r \in Requests : RequestCounted(r)'
  BY <1>3 DEF RequestCounted
<1> QED
  BY <1>1, <1>2, <1>4 DEF CountInv

LEMMA CountStep ==
  ASSUME TypeInv, PasswordInv, CountInv, [Next]_vars
  PROVE  CountInv'
<1>1. ASSUME NEW q \in Requests, WriteChange(q) PROVE CountInv'
  <2> DEFINE u == request[q].actor
  <2>1. /\ request[q] # Nothing /\ request[q].op = "change"
        /\ u \in Users /\ Exists(u)
        /\ account'[u] # Nothing /\ account'[u].version = request[q].version + 1
        /\ epoch'[u] = epoch[u] + 1
        /\ lag'[u] = lag[u] + (account[u].version - request[q].version)
        /\ \A v \in Users : v # u => /\ account'[v] = account[v]
                                     /\ epoch'[v] = epoch[v] /\ lag'[v] = lag[v]
        /\ request'[q] = Nothing
        /\ \A r \in Requests : r # q => request'[r] = request[r]
        /\ token' = token
    BY <1>1, WritesChange
  <2>2. request[q].version \in Nat /\ request[q].version <= epoch[u] + 1
    BY <2>1, Asker DEF CountInv, RequestCounted
  <2> HIDE DEF u
  <2> QED
    BY <2>1, <2>2, ReplacementCounts
<1>2. ASSUME NEW q \in Requests, Reset(q) PROVE CountInv'
  <2> DEFINE u == request[q].target
  <2>1. /\ u \in Users /\ Exists(u)
        /\ account'[u] # Nothing /\ account'[u].version = account[u].version + 1
        /\ epoch'[u] = epoch[u] + 1 /\ lag'[u] = lag[u] + 0
        /\ \A v \in Users : v # u => /\ account'[v] = account[v]
                                     /\ epoch'[v] = epoch[v] /\ lag'[v] = lag[v]
        /\ request'[q] = Nothing
        /\ \A r \in Requests : r # q => request'[r] = request[r]
        /\ token' = token
    BY <1>2, Resets
  <2> HIDE DEF u
  <2>2. /\ account[u].version \in Nat /\ account[u].version <= epoch[u] + 1
        /\ account[u].version - account[u].version = 0
    BY <2>1, Counts DEF CountInv, Counted
  <2> QED
    BY <2>1, <2>2, ReplacementCounts
<1> QED
  BY <1>1, <1>2, Steps, CalmCounts, ArrivalCounts, PassCounts

LEMMA CountInit == Init => CountInv
<1> SUFFICES ASSUME Init PROVE CountInv
  OBVIOUS
<1>1. /\ \A s \in Sessions : token[s] = Nothing
      /\ \A q \in Requests : request[q] = Nothing
      /\ \A u \in Users : epoch[u] = 0 /\ lag[u] = 0
      /\ \A u \in Users : Exists(u) => account[u].version = 1
  BY DEF Init, Exists, Registered
<1> QED
  BY <1>1 DEF CountInv, Counted, TokenCounted, RequestCounted

LEMMA CountsBoundSurvival ==
  TypeInv /\ CountInv => SurvivalTakesStaleVersions
<1> SUFFICES ASSUME TypeInv, CountInv, NEW s \in Sessions, Acceptable(s)
             PROVE  epoch[token[s].user] - token[s].epoch <= lag[token[s].user]
  BY DEF SurvivalTakesStaleVersions
<1> DEFINE u == token[s].user
<1>1. /\ u \in Users /\ Exists(u) /\ token[s].epoch \in Nat
      /\ token[s].version \in Nat /\ token[s].version = account[u].version
  BY Holder DEF Acceptable, TypeInv, TypeOK, Token
<1>2. /\ token[s].version <= token[s].epoch + 1
      /\ account[u].version + lag[u] = epoch[u] + 1
  BY <1>1 DEF CountInv, Counted, TokenCounted, Acceptable
<1> HIDE DEF u
<1>3. epoch[u] \in Nat /\ lag[u] \in Int
  BY <1>1, Counts
<1>4. epoch[u] - token[s].epoch <= lag[u]
  BY <1>1, <1>2, <1>3
<1> QED
  BY <1>4 DEF u

(* Without any assumption on who asks for what: a session outlives at most   *)
(* as many replacements of its password as the versions that changes counted *)
(* on from were behind, and so none where no change was overtaken.           *)
THEOREM SurvivalIsCounted == Spec => []SurvivalTakesStaleVersions
<1>1. Init => TypeInv /\ PasswordInv /\ CountInv
  BY TypeInit, PasswordInit, CountInit
<1>2. /\ TypeInv /\ PasswordInv /\ CountInv /\ [Next]_vars
      => TypeInv' /\ PasswordInv' /\ CountInv'
  BY TypeStep, PasswordStep, CountStep
<1> QED
  BY <1>1, <1>2, CountsBoundSurvival, PTL DEF Spec
=============================================================================
