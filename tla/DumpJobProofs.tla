----------------------------- MODULE DumpJobProofs -----------------------------
(***************************************************************************)
(* Proofs about DumpJob for any number of runs and of files to keep: the   *)
(* cleanups of overlapping runs remove only what is old, the server and    *)
(* /tmp do not fill up, and a complete backup outlives broken ones.        *)
(***************************************************************************)
EXTENDS DumpJob, SequenceTheorems, FiniteSetTheorems, TLAPS

-------------------------------------------------------------------------------
(* Sequences without repetition.                                            *)

LEMMA Elements ==
    ASSUME NEW s \in Seq(Runs)
    PROVE  /\ Len(s) \in Nat /\ DOMAIN s = 1..Len(s)
           /\ \A i \in 1..Len(s) : s[i] \in Runs
           /\ ToSet(s) = {s[i] : i \in 1..Len(s)}
           /\ ToSet(s) \subseteq Runs
BY LenProperties, ElementOfSeq DEF ToSet

LEMMA RemoveAtElements ==
    ASSUME NEW s \in Seq(Runs), NEW p \in 1..Len(s)
    PROVE  /\ RemoveAt(s, p) \in Seq(Runs)
           /\ Len(RemoveAt(s, p)) = Len(s) - 1
           /\ \A i \in 1..(Len(s) - 1) : RemoveAt(s, p)[i] = IF i < p THEN s[i] ELSE s[i + 1]
<1> DEFINE a == SubSeq(s, 1, p - 1)
           b == SubSeq(s, p + 1, Len(s))
<1>0. Len(s) \in Nat /\ p \in Nat /\ \A i \in 1..Len(s) : s[i] \in Runs
  BY Elements
<1>1. /\ a \in Seq(Runs) /\ Len(a) = p - 1
      /\ \A i \in 1..(p - 1) : a[i] = s[i]
  <2>1. \A i \in 1..(p - 1) : s[i] \in Runs
    BY <1>0
  <2>2. a \in Seq(Runs) /\ Len(a) = IF 1 <= p - 1 THEN (p - 1) - 1 + 1 ELSE 0
    BY <1>0, <2>1, SubSeqProperties
  <2>3. \A i \in 1..((p - 1) - 1 + 1) : a[i] = s[1 + i - 1]
    BY <1>0, <2>1, SubSeqProperties
  <2> QED BY <1>0, <2>2, <2>3
<1>2. /\ b \in Seq(Runs) /\ Len(b) = Len(s) - p
      /\ \A i \in 1..(Len(s) - p) : b[i] = s[p + i]
  <2>1. \A i \in (p + 1)..Len(s) : s[i] \in Runs
    BY <1>0
  <2>2. b \in Seq(Runs) /\ Len(b) = IF p + 1 <= Len(s) THEN Len(s) - (p + 1) + 1 ELSE 0
    BY <1>0, <2>1, SubSeqProperties
  <2>3. \A i \in 1..(Len(s) - (p + 1) + 1) : b[i] = s[(p + 1) + i - 1]
    BY <1>0, <2>1, SubSeqProperties
  <2> QED BY <1>0, <2>2, <2>3
<1>3. RemoveAt(s, p) = a \o b
  BY DEF RemoveAt
<1> HIDE DEF a, b
<1>4. /\ a \o b \in Seq(Runs) /\ Len(a \o b) = Len(a) + Len(b)
      /\ \A i \in 1..(Len(a) + Len(b)) : (a \o b)[i] = IF i <= Len(a) THEN a[i] ELSE b[i - Len(a)]
  BY <1>1, <1>2, ConcatProperties
<1> QED BY <1>0, <1>1, <1>2, <1>3, <1>4

(* A removed file leaves the others in their order.                         *)
LEMMA WithoutElements ==
    ASSUME remote \in Seq(Runs), IsInjective(remote), NEW f \in ToSet(remote)
    PROVE  \E p \in 1..Len(remote) :
             /\ remote[p] = f
             /\ Without(f) \in Seq(Runs)
             /\ Len(Without(f)) = Len(remote) - 1
             /\ \A i \in 1..(Len(remote) - 1) :
                  Without(f)[i] = IF i < p THEN remote[i] ELSE remote[i + 1]
<1> DEFINE p == Position(f)
<1>1. \E i \in DOMAIN remote : remote[i] = f
  BY DEF ToSet
<1>2. p \in DOMAIN remote /\ remote[p] = f
  BY <1>1 DEF Position
<1>3. p \in 1..Len(remote)
  BY <1>2, Elements
<1>4. Without(f) = RemoveAt(remote, p)
  BY DEF Without
<1> HIDE DEF p
<1> QED BY <1>2, <1>3, <1>4, RemoveAtElements

LEMMA WithoutSet ==
    ASSUME remote \in Seq(Runs), IsInjective(remote), NEW f
    PROVE  /\ Without(f) \in Seq(Runs)
           /\ IsInjective(Without(f))
           /\ ToSet(Without(f)) = ToSet(remote) \ {f}
<1>1. CASE f \notin ToSet(remote)
  BY <1>1 DEF Without
<1>2. CASE f \in ToSet(remote)
  <2> DEFINE w == Without(f)
  <2>1. PICK p \in 1..Len(remote) :
             /\ remote[p] = f
             /\ w \in Seq(Runs)
             /\ Len(w) = Len(remote) - 1
             /\ \A i \in 1..(Len(remote) - 1) : w[i] = IF i < p THEN remote[i] ELSE remote[i + 1]
    BY <1>2, WithoutElements
  <2>2. Len(remote) \in Nat /\ \A i, j \in 1..Len(remote) : remote[i] = remote[j] => i = j
    BY Elements DEF IsInjective
  <2>3. DOMAIN w = 1..(Len(remote) - 1) /\ ToSet(w) = {w[i] : i \in 1..(Len(remote) - 1)}
    BY <2>1, Elements
  <2>4. ToSet(remote) = {remote[i] : i \in 1..Len(remote)}
    BY Elements
  <2> HIDE DEF w
  <2>5. IsInjective(w)
    <3> SUFFICES ASSUME NEW i \in 1..(Len(remote) - 1), NEW j \in 1..(Len(remote) - 1), w[i] = w[j]
                 PROVE  i = j
      BY <2>3 DEF IsInjective
    <3>1. CASE i < p /\ j < p
      BY <2>1, <2>2, <3>1
    <3>2. CASE i < p /\ j >= p
      BY <2>1, <2>2, <3>2
    <3>3. CASE i >= p /\ j < p
      BY <2>1, <2>2, <3>3
    <3>4. CASE i >= p /\ j >= p
      BY <2>1, <2>2, <3>4
    <3> QED BY <2>2, <3>1, <3>2, <3>3, <3>4
  <2>6. ToSet(w) \subseteq ToSet(remote) \ {f}
    <3> SUFFICES ASSUME NEW i \in 1..(Len(remote) - 1)
                 PROVE  w[i] \in ToSet(remote) \ {f}
      BY <2>3
    <3>1. CASE i < p
      BY <2>1, <2>2, <2>4, <3>1
    <3>2. CASE i >= p
      BY <2>1, <2>2, <2>4, <3>2
    <3> QED BY <2>2, <3>1, <3>2
  <2>7. ToSet(remote) \ {f} \subseteq ToSet(w)
    <3> SUFFICES ASSUME NEW i \in 1..Len(remote), remote[i] # f
                 PROVE  remote[i] \in ToSet(w)
      BY <2>4
    <3>1. CASE i < p
      <4>1. i \in 1..(Len(remote) - 1) /\ w[i] = remote[i]
        BY <2>1, <2>2, <3>1
      <4> QED BY <2>3, <4>1
    <3>2. CASE i > p
      <4>1. i - 1 \in 1..(Len(remote) - 1) /\ w[i - 1] = remote[i]
        BY <2>1, <2>2, <3>2
      <4> QED BY <2>3, <4>1
    <3> QED BY <2>1, <2>2, <3>1, <3>2
  <2> QED BY <2>1, <2>5, <2>6, <2>7 DEF w
<1> QED BY <1>1, <1>2

LEMMA AppendSet ==
    ASSUME NEW s \in Seq(Runs), IsInjective(s), NEW f \in Runs, f \notin ToSet(s)
    PROVE  /\ Append(s, f) \in Seq(Runs)
           /\ IsInjective(Append(s, f))
           /\ ToSet(Append(s, f)) = ToSet(s) \cup {f}
<1> DEFINE t == Append(s, f)
<1>1. /\ t \in Seq(Runs) /\ Len(t) = Len(s) + 1 /\ Len(s) \in Nat
      /\ \A i \in 1..Len(s) : t[i] = s[i]
      /\ t[Len(s) + 1] = f
  BY AppendProperties, Elements
<1>2. /\ DOMAIN t = 1..(Len(s) + 1) /\ ToSet(t) = {t[i] : i \in 1..(Len(s) + 1)}
      /\ DOMAIN s = 1..Len(s) /\ ToSet(s) = {s[i] : i \in 1..Len(s)}
  BY <1>1, Elements
<1> HIDE DEF t
<1>3. \A i, j \in 1..(Len(s) + 1) : t[i] = t[j] => i = j
  <2> SUFFICES ASSUME NEW i \in 1..(Len(s) + 1), NEW j \in 1..(Len(s) + 1), t[i] = t[j]
               PROVE  i = j
    OBVIOUS
  <2>1. CASE i = Len(s) + 1 \/ j = Len(s) + 1
    BY <1>1, <1>2, <2>1
  <2>2. CASE i # Len(s) + 1 /\ j # Len(s) + 1
    BY <1>1, <1>2, <2>2 DEF IsInjective
  <2> QED BY <2>1, <2>2
<1>4. ToSet(t) = ToSet(s) \cup {f}
  BY <1>1, <1>2
<1> QED BY <1>1, <1>2, <1>3, <1>4 DEF t, IsInjective

LEMMA TailSet ==
    ASSUME NEW s \in Seq(Runs), s # <<>>
    PROVE  /\ Head(s) \in ToSet(s) /\ Tail(s) \in Seq(Runs) /\ ToSet(Tail(s)) \subseteq ToSet(s)
           /\ ToSet(s) \subseteq ToSet(Tail(s)) \cup {Head(s)}
           /\ IsInjective(s) => IsInjective(Tail(s))
<1> DEFINE t == Tail(s)
<1>1. /\ t \in Seq(Runs) /\ Len(t) = Len(s) - 1 /\ Len(s) \in Nat \ {0}
      /\ \A i \in 1..(Len(s) - 1) : t[i] = s[i + 1]
      /\ Head(s) = s[1]
  BY HeadTailProperties, EmptySeq, Elements
<1>2. /\ DOMAIN t = 1..(Len(s) - 1) /\ ToSet(t) = {t[i] : i \in 1..(Len(s) - 1)}
      /\ DOMAIN s = 1..Len(s) /\ ToSet(s) = {s[i] : i \in 1..Len(s)}
  BY <1>1, Elements
<1> HIDE DEF t
<1>3. Head(s) \in ToSet(s) /\ ToSet(t) \subseteq ToSet(s)
  BY <1>1, <1>2
<1>4. ToSet(s) \subseteq ToSet(t) \cup {Head(s)}
  <2> SUFFICES ASSUME NEW i \in 1..Len(s), i # 1 PROVE s[i] \in ToSet(t)
    BY <1>1, <1>2
  <2>1. i - 1 \in 1..(Len(s) - 1) /\ t[i - 1] = s[i]
    BY <1>1
  <2> QED BY <1>2, <2>1
<1>5. IsInjective(s) => IsInjective(t)
  <2> SUFFICES ASSUME IsInjective(s), NEW i \in 1..(Len(s) - 1), NEW j \in 1..(Len(s) - 1), t[i] = t[j]
               PROVE  i = j
    BY <1>2 DEF IsInjective
  <2>1. s[i + 1] = s[j + 1] /\ i + 1 \in 1..Len(s) /\ j + 1 \in 1..Len(s)
    BY <1>1
  <2>2. i + 1 = j + 1
    BY <1>2, <2>1 DEF IsInjective
  <2> QED BY <2>2
<1> QED BY <1>1, <1>3, <1>4, <1>5 DEF t

(* What a cleanup means to remove: the files before the last Keep.          *)
LEMMA OldestElements ==
    ASSUME remote \in Seq(Runs), IsInjective(remote)
    PROVE  /\ Oldest(remote) \in Seq(Runs) /\ IsInjective(Oldest(remote))
           /\ ToSet(Oldest(remote)) = {remote[i] : i \in 1..(Len(remote) - Keep)}
<1>0. /\ Len(remote) \in Nat /\ Keep \in Nat /\ DOMAIN remote = 1..Len(remote)
      /\ \A i \in 1..Len(remote) : remote[i] \in Runs
  BY Elements, KeepAssumption
<1>1. CASE Len(remote) <= Keep
  <2>1. Oldest(remote) = <<>>
    BY <1>1 DEF Oldest
  <2>2. <<>> \in Seq(Runs) /\ IsInjective(<<>>) /\ ToSet(<<>>) = {}
    BY EmptySeq DEF IsInjective, ToSet
  <2>3. 1..(Len(remote) - Keep) = {}
    BY <1>0, <1>1
  <2> QED BY <2>1, <2>2, <2>3
<1>2. CASE ~(Len(remote) <= Keep)
  <2> DEFINE n == Len(remote) - Keep
             o == SubSeq(remote, 1, n)
  <2>1. n \in Nat /\ n <= Len(remote) /\ 1 <= n /\ Oldest(remote) = o
    BY <1>0, <1>2 DEF Oldest
  <2> HIDE DEF n
  <2>2. \A i \in 1..n : remote[i] \in Runs
    BY <1>0, <2>1
  <2>3. /\ o \in Seq(Runs) /\ Len(o) = IF 1 <= n THEN n - 1 + 1 ELSE 0
        /\ \A i \in 1..(n - 1 + 1) : o[i] = remote[1 + i - 1]
    BY <2>1, <2>2, SubSeqProperties
  <2> HIDE DEF o
  <2>4. Len(o) = n /\ \A i \in 1..n : o[i] = remote[i]
    BY <2>1, <2>3
  <2>5. DOMAIN o = 1..n /\ ToSet(o) = {o[i] : i \in 1..n}
    BY <2>3, <2>4, Elements
  <2>6. ToSet(o) = {remote[i] : i \in 1..n}
    BY <2>4, <2>5
  <2>7. IsInjective(o)
    BY <1>0, <2>1, <2>4, <2>5 DEF IsInjective
  <2> QED BY <2>1, <2>3, <2>6, <2>7 DEF n
<1> QED BY <1>1, <1>2
-------------------------------------------------------------------------------
(* Types.                                                                   *)

Early == {"new", "dump", "connect", "create"}

DumpType ==
    /\ TypeOK
    /\ ToSet(remote) \subseteq created
    /\ \A r \in Runs : ToSet(toDelete[r]) \subseteq created
    /\ \A r \in Runs : at[r] \in Early => r \notin created
    /\ \A r \in Runs : at[r] = "write" => r \in created

LEMMA TypeInit == Init => DumpType
<1> SUFFICES ASSUME Init PROVE DumpType
  OBVIOUS
<1>1. <<>> \in Seq(Runs) /\ IsInjective(<<>>) /\ ToSet(<<>>) = {}
  BY EmptySeq DEF IsInjective, ToSet
<1>2. TypeOK
  BY <1>1 DEF Init, TypeOK
<1> QED BY <1>1, <1>2 DEF Init, DumpType

LEMMA TypeNext == DumpType /\ [Next]_vars => DumpType'
<1> SUFFICES ASSUME DumpType, [Next]_vars
             PROVE  DumpType'
  OBVIOUS
<1>0. /\ at \in [Runs -> {"new"} \cup Active \cup Ends]
      /\ remote \in Seq(Runs) /\ IsInjective(remote)
      /\ toDelete \in [Runs -> Seq(Runs)] /\ \A r \in Runs : IsInjective(toDelete[r])
      /\ complete \subseteq created /\ created \subseteq Runs /\ missed \subseteq Runs
      /\ local \subseteq Runs /\ overtaken \subseteq Runs
      /\ ToSet(remote) \subseteq created /\ \A r \in Runs : ToSet(toDelete[r]) \subseteq created
      /\ \A r \in Runs : at[r] \in Early => r \notin created
      /\ \A r \in Runs : at[r] = "write" => r \in created
  BY DEF DumpType, TypeOK
<1> USE DEF Goto, Active, Uploading, Ends, Early
<1>1. ASSUME NEW r \in Runs, NEW place \in {"dump", "connect", "create"} \cup Ends,
             at' = [at EXCEPT ![r] = place],
             place \in Early => at[r] \in Early,
             UNCHANGED <<remote, complete, toDelete, created, missed, overtaken>>,
             local' \subseteq local \cup {r}
      PROVE  DumpType'
  BY <1>0, <1>1 DEF DumpType, TypeOK
<1>2. ASSUME NEW r \in Runs,
             Start(r) \/ Dump(r) \/ DumpFails(r) \/ Connect(r) \/ ConnectFails(r)
               \/ ListFails(r) \/ Finish(r) \/ Killed(r)
      PROVE  DumpType'
  <2>1. CASE Start(r)
    BY <1>1, <2>1 DEF Start
  <2>2. CASE Dump(r)
    BY <1>1, <2>2 DEF Dump
  <2>3. CASE DumpFails(r)
    BY <1>1, <2>3 DEF DumpFails
  <2>4. CASE Connect(r)
    BY <1>1, <2>4 DEF Connect
  <2>5. CASE ConnectFails(r)
    BY <1>1, <2>5 DEF ConnectFails
  <2>6. CASE ListFails(r)
    BY <1>1, <2>6 DEF ListFails
  <2>7. CASE Finish(r)
    BY <1>1, <2>7 DEF Finish
  <2>8. CASE Killed(r)
    BY <1>1, <2>8 DEF Killed
  <2> QED BY <1>2, <2>1, <2>2, <2>3, <2>4, <2>5, <2>6, <2>7, <2>8
<1>3. ASSUME NEW r \in Runs, CreateRemote(r)
      PROVE  DumpType'
  <2>1. r \notin ToSet(remote) /\ remote' = Append(remote, r)
    BY <1>0, <1>3 DEF CreateRemote
  <2>2. remote' \in Seq(Runs) /\ IsInjective(remote)' /\ ToSet(remote)' = ToSet(remote) \cup {r}
    BY <1>0, <2>1, AppendSet
  <2> QED BY <1>0, <1>3, <2>2 DEF CreateRemote, DumpType, TypeOK
<1>4. ASSUME NEW r \in Runs, Touch(r)
      PROVE  /\ remote' \in Seq(Runs) /\ IsInjective(remote)' /\ ToSet(remote)' = ToSet(remote)
             /\ overtaken' \subseteq Runs
  <2>1. CASE r \in ToSet(remote)
    <3> DEFINE w == Without(r)
    <3>1. w \in Seq(Runs) /\ IsInjective(w) /\ ToSet(w) = ToSet(remote) \ {r}
      BY <1>0, WithoutSet
    <3>2. remote' = Append(w, r)
      BY <1>4, <2>1 DEF Touch
    <3> HIDE DEF w
    <3>3. remote' \in Seq(Runs) /\ IsInjective(remote)' /\ ToSet(remote)' = ToSet(w) \cup {r}
      BY <3>1, <3>2, AppendSet
    <3> QED BY <1>0, <1>4, <2>1, <3>1, <3>3 DEF Touch
  <2>2. CASE r \notin ToSet(remote)
    BY <1>0, <1>4, <2>2 DEF Touch
  <2> QED BY <2>1, <2>2
<1>5. ASSUME NEW r \in Runs, WriteMore(r)
      PROVE  DumpType'
  <2>1. Touch(r)
    BY <1>5 DEF WriteMore
  <2> QED BY <1>0, <1>4, <1>5, <2>1 DEF WriteMore, DumpType, TypeOK
<1>6. ASSUME NEW r \in Runs, WriteRest(r)
      PROVE  DumpType'
  <2>1. Touch(r)
    BY <1>6 DEF WriteRest
  <2> QED BY <1>0, <1>4, <1>6, <2>1 DEF WriteRest, DumpType, TypeOK
<1>7. ASSUME NEW r \in Runs, UploadFails(r)
      PROVE  DumpType'
  BY <1>0, <1>7 DEF UploadFails, DumpType, TypeOK
<1>8. ASSUME NEW r \in Runs, ListBackups(r)
      PROVE  DumpType'
  <2>1. /\ Oldest(remote) \in Seq(Runs) /\ IsInjective(Oldest(remote))
        /\ ToSet(Oldest(remote)) \subseteq ToSet(remote)
    <3>1. /\ Len(remote) \in Nat /\ Keep \in Nat
          /\ ToSet(remote) = {remote[i] : i \in 1..Len(remote)}
      BY <1>0, Elements, KeepAssumption
    <3>2. {remote[i] : i \in 1..(Len(remote) - Keep)} \subseteq ToSet(remote)
      BY <3>1
    <3> QED BY <1>0, <3>2, OldestElements
  <2>2. toDelete' = [toDelete EXCEPT ![r] = Oldest(remote)]
    BY <1>8 DEF ListBackups
  <2>3. \A q \in Runs : toDelete'[q] = IF q = r THEN Oldest(remote) ELSE toDelete[q]
    BY <1>0, <2>2
  <2>4. /\ toDelete' \in [Runs -> Seq(Runs)]
        /\ \A q \in Runs : IsInjective(toDelete'[q]) /\ ToSet(toDelete'[q]) \subseteq created
    BY <1>0, <2>1, <2>2, <2>3
  <2> QED BY <1>0, <1>8, <2>4 DEF ListBackups, DumpType, TypeOK
<1>9. ASSUME NEW r \in Runs, toDelete[r] # <<>>, toDelete' = [toDelete EXCEPT ![r] = Tail(@)]
      PROVE  /\ toDelete' \in [Runs -> Seq(Runs)]
             /\ \A q \in Runs : IsInjective(toDelete'[q]) /\ ToSet(toDelete'[q]) \subseteq created
  <2>1. /\ Tail(toDelete[r]) \in Seq(Runs) /\ IsInjective(Tail(toDelete[r]))
        /\ ToSet(Tail(toDelete[r])) \subseteq created
    BY <1>0, <1>9, TailSet
  <2>2. \A q \in Runs : toDelete'[q] = IF q = r THEN Tail(toDelete[r]) ELSE toDelete[q]
    BY <1>0, <1>9
  <2> QED BY <1>0, <1>9, <2>1, <2>2
<1>10. ASSUME NEW r \in Runs, RemoveOldest(r)
       PROVE  DumpType'
  <2>1. toDelete[r] # <<>> /\ toDelete' = [toDelete EXCEPT ![r] = Tail(@)] /\ remote' = Without(Head(toDelete[r]))
    BY <1>10 DEF RemoveOldest
  <2>2. remote' \in Seq(Runs) /\ IsInjective(remote)' /\ ToSet(remote)' \subseteq ToSet(remote)
    BY <1>0, <2>1, WithoutSet
  <2> QED BY <1>0, <1>9, <1>10, <2>1, <2>2 DEF RemoveOldest, DumpType, TypeOK
<1>11. ASSUME NEW r \in Runs, RemoveFails(r)
       PROVE  DumpType'
  <2>1. toDelete[r] # <<>> /\ toDelete' = [toDelete EXCEPT ![r] = Tail(@)]
    BY <1>11 DEF RemoveFails
  <2> QED BY <1>0, <1>9, <1>11, <2>1 DEF RemoveFails, DumpType, TypeOK
<1>12. CASE UNCHANGED vars
  BY <1>0, <1>12 DEF vars, DumpType, TypeOK
<1> QED BY <1>2, <1>3, <1>5, <1>6, <1>7, <1>8, <1>10, <1>11, <1>12 DEF Next
-------------------------------------------------------------------------------
(* What cleanups may do.  Marked files have Keep newer ones behind them, as *)
(* long as no marked file was written; this outlives the removals, for the  *)
(* file removed had Keep newer ones itself.  And once a file was removed    *)
(* there are always Keep.                                                   *)

Removing == {r \in Runs : at[r] = "remove"}
MarkedBy(S) == UNION {ToSet(toDelete[r]) : r \in S}
Doomed == MarkedBy(Removing)
Guarded(s, D) == \A i \in 1..Len(s) : s[i] \in D => Len(s) - i >= Keep

Safe ==
    overtaken = {} =>
        /\ Guarded(remote, Doomed)
        /\ created # ToSet(remote) => Len(remote) >= Keep

LEMMA DoomedIsMarked == \A f : Marked(f) <=> f \in Doomed
BY DEF Marked, Doomed, MarkedBy, Removing

LEMMA GuardRemove ==
    ASSUME remote \in Seq(Runs), IsInjective(remote),
           NEW D, Guarded(remote, D), NEW f \in D, f \in ToSet(remote)
    PROVE  Guarded(Without(f), D) /\ Len(Without(f)) >= Keep
<1> DEFINE w == Without(f)
<1>0. Len(remote) \in Nat /\ Keep \in Nat
  BY Elements, KeepAssumption
<1>1. PICK p \in 1..Len(remote) :
           /\ remote[p] = f
           /\ Len(w) = Len(remote) - 1
           /\ \A i \in 1..(Len(remote) - 1) : w[i] = IF i < p THEN remote[i] ELSE remote[i + 1]
  BY WithoutElements
<1> HIDE DEF w
<1>2. Len(remote) - p >= Keep
  BY <1>1 DEF Guarded
<1>3. ASSUME NEW i \in 1..Len(w), w[i] \in D
      PROVE  Len(w) - i >= Keep
  <2>1. CASE i < p
    BY <1>0, <1>1, <1>2, <2>1
  <2>2. CASE i >= p
    <3>1. w[i] = remote[i + 1] /\ i + 1 \in 1..Len(remote)
      BY <1>0, <1>1, <2>2
    <3>2. Len(remote) - (i + 1) >= Keep
      BY <1>3, <3>1 DEF Guarded
    <3> QED BY <1>0, <1>1, <3>2
  <2> QED BY <1>0, <1>1, <2>1, <2>2
<1>4. Guarded(w, D) /\ Len(w) >= Keep
  BY <1>0, <1>1, <1>2, <1>3 DEF Guarded
<1> QED BY <1>4 DEF w

LEMMA GuardTouch ==
    ASSUME remote \in Seq(Runs), IsInjective(remote),
           NEW D, Guarded(remote, D), NEW f \in Runs, f \notin D, f \in ToSet(remote)
    PROVE  Guarded(Append(Without(f), f), D) /\ Len(Append(Without(f), f)) = Len(remote)
<1> DEFINE w == Without(f)
           t == Append(w, f)
<1>0. Len(remote) \in Nat /\ Keep \in Nat
  BY Elements, KeepAssumption
<1>1. PICK p \in 1..Len(remote) :
           /\ remote[p] = f
           /\ w \in Seq(Runs)
           /\ Len(w) = Len(remote) - 1
           /\ \A i \in 1..(Len(remote) - 1) : w[i] = IF i < p THEN remote[i] ELSE remote[i + 1]
  BY WithoutElements
<1> HIDE DEF w
<1>2. /\ Len(t) = Len(w) + 1
      /\ \A i \in 1..Len(w) : t[i] = w[i]
      /\ t[Len(w) + 1] = f
  BY <1>1, AppendProperties
<1> HIDE DEF t
<1>3. ASSUME NEW i \in 1..Len(t), t[i] \in D
      PROVE  Len(t) - i >= Keep
  <2>1. i \in 1..(Len(remote) - 1) /\ t[i] = w[i]
    BY <1>0, <1>1, <1>2, <1>3
  <2>2. CASE i < p
    <3>1. remote[i] \in D /\ i \in 1..Len(remote)
      BY <1>0, <1>1, <1>3, <2>1, <2>2
    <3> QED BY <1>0, <1>1, <1>2, <3>1 DEF Guarded
  <2>3. CASE i >= p
    <3>1. remote[i + 1] \in D /\ i + 1 \in 1..Len(remote)
      BY <1>0, <1>1, <1>3, <2>1, <2>3
    <3>2. Len(remote) - (i + 1) >= Keep
      BY <3>1 DEF Guarded
    <3> QED BY <1>0, <1>1, <1>2, <3>2
  <2> QED BY <1>0, <2>1, <2>2, <2>3
<1>4. Guarded(t, D) /\ Len(t) = Len(remote)
  BY <1>0, <1>1, <1>2, <1>3 DEF Guarded
<1> QED BY <1>4 DEF w, t

LEMMA GuardCreate ==
    ASSUME remote \in Seq(Runs), NEW D, Guarded(remote, D), NEW f \in Runs, f \notin D
    PROVE  Guarded(Append(remote, f), D) /\ Len(Append(remote, f)) = Len(remote) + 1
<1> DEFINE t == Append(remote, f)
<1>0. Len(remote) \in Nat /\ Keep \in Nat
  BY Elements, KeepAssumption
<1>1. /\ Len(t) = Len(remote) + 1
      /\ \A i \in 1..Len(remote) : t[i] = remote[i]
      /\ t[Len(remote) + 1] = f
  BY AppendProperties
<1> HIDE DEF t
<1>2. Guarded(t, D)
  <2> SUFFICES ASSUME NEW i \in 1..Len(t), t[i] \in D PROVE Len(t) - i >= Keep
    BY DEF Guarded
  <2>1. i \in 1..Len(remote) /\ remote[i] \in D
    BY <1>0, <1>1
  <2>2. Len(remote) - i >= Keep
    BY <2>1 DEF Guarded
  <2> QED BY <1>0, <1>1, <2>2
<1> QED BY <1>1, <1>2 DEF t

LEMMA GuardOldest ==
    ASSUME remote \in Seq(Runs), IsInjective(remote), NEW D, Guarded(remote, D)
    PROVE  Guarded(remote, D \cup ToSet(Oldest(remote)))
<1>0. /\ Len(remote) \in Nat /\ Keep \in Nat /\ DOMAIN remote = 1..Len(remote)
      /\ ToSet(Oldest(remote)) = {remote[i] : i \in 1..(Len(remote) - Keep)}
  BY Elements, KeepAssumption, OldestElements
<1> SUFFICES ASSUME NEW i \in 1..Len(remote), remote[i] \in ToSet(Oldest(remote))
             PROVE  Len(remote) - i >= Keep
  BY DEF Guarded
<1>1. PICK j \in 1..(Len(remote) - Keep) : remote[i] = remote[j]
  BY <1>0
<1>2. i = j
  BY <1>0, <1>1 DEF IsInjective
<1> QED BY <1>0, <1>1, <1>2

LEMMA SafeNext == DumpType /\ Safe /\ [Next]_vars => Safe'
<1> SUFFICES ASSUME DumpType, Safe, [Next]_vars, overtaken' = {}
             PROVE  Guarded(remote', Doomed') /\ (created' # ToSet(remote') => Len(remote') >= Keep)
  BY DEF Safe
<1>0. /\ at \in [Runs -> {"new"} \cup Active \cup Ends]
      /\ remote \in Seq(Runs) /\ IsInjective(remote) /\ Len(remote) \in Nat /\ Keep \in Nat
      /\ toDelete \in [Runs -> Seq(Runs)]
      /\ created \subseteq Runs
      /\ ToSet(remote) \subseteq created /\ \A r \in Runs : ToSet(toDelete[r]) \subseteq created
      /\ \A r \in Runs : at[r] \in Early => r \notin created
  BY Elements, KeepAssumption DEF DumpType, TypeOK
<1>a. overtaken = {}
  BY DEF Next, vars, Start, Dump, DumpFails, Connect, ConnectFails, CreateRemote, WriteMore,
         WriteRest, Touch, UploadFails, ListBackups, ListFails, RemoveOldest, RemoveFails,
         Finish, Killed
<1>b. Guarded(remote, Doomed) /\ (created # ToSet(remote) => Len(remote) >= Keep)
  BY <1>a DEF Safe
<1>1. ASSUME Doomed' \subseteq Doomed, UNCHANGED <<remote, created>>
      PROVE  Guarded(remote', Doomed') /\ (created' # ToSet(remote') => Len(remote') >= Keep)
  BY <1>b, <1>1 DEF Guarded
<1>2. ASSUME NEW r \in Runs, NEW place, place # "remove", at' = [at EXCEPT ![r] = place],
             UNCHANGED toDelete
      PROVE  Doomed' \subseteq Doomed
  <2>1. Removing' \subseteq Removing
    BY <1>0, <1>2 DEF Removing
  <2> QED BY <1>2, <2>1 DEF Doomed, MarkedBy
<1>3. ASSUME NEW r \in Runs,
             Start(r) \/ Dump(r) \/ DumpFails(r) \/ Connect(r) \/ ConnectFails(r)
               \/ UploadFails(r) \/ ListFails(r) \/ Finish(r) \/ Killed(r)
      PROVE  Guarded(remote', Doomed') /\ (created' # ToSet(remote') => Len(remote') >= Keep)
  <2>1. UNCHANGED <<remote, created, toDelete>>
    BY <1>3 DEF Start, Dump, DumpFails, Connect, ConnectFails, UploadFails, ListFails, Finish, Killed
  <2>2. \E place : place # "remove" /\ at' = [at EXCEPT ![r] = place]
    BY <1>3 DEF Start, Dump, DumpFails, Connect, ConnectFails, UploadFails, ListFails, Finish, Killed, Goto
  <2> QED BY <1>1, <1>2, <2>1, <2>2
<1>4. ASSUME NEW r \in Runs, CreateRemote(r)
      PROVE  Guarded(remote', Doomed') /\ (created' # ToSet(remote') => Len(remote') >= Keep)
  <2>1. /\ r \notin created /\ remote' = Append(remote, r) /\ created' = created \cup {r}
        /\ at' = [at EXCEPT ![r] = "write"] /\ toDelete' = toDelete
    BY <1>0, <1>4 DEF CreateRemote, Early, Goto
  <2>2. Doomed' \subseteq Doomed
    BY <1>2, <2>1
  <2>3. r \notin Doomed /\ r \notin ToSet(remote)
    BY <1>0, <2>1 DEF Doomed, MarkedBy, Removing
  <2>4. Guarded(remote', Doomed) /\ Len(remote') = Len(remote) + 1
    BY <1>0, <1>b, <2>1, <2>3, GuardCreate
  <2>5. ToSet(remote') = ToSet(remote) \cup {r}
    BY <1>0, <2>1, <2>3, AppendSet
  <2> QED BY <1>0, <1>b, <2>1, <2>2, <2>4, <2>5 DEF Guarded
<1>5. ASSUME NEW r \in Runs, WriteMore(r) \/ WriteRest(r)
      PROVE  Guarded(remote', Doomed') /\ (created' # ToSet(remote') => Len(remote') >= Keep)
  <2>1. Touch(r) /\ UNCHANGED <<toDelete, created>>
    BY <1>5 DEF WriteMore, WriteRest
  <2>2. Doomed' \subseteq Doomed
    <3>1. CASE WriteMore(r)
      BY <3>1 DEF WriteMore, Doomed, MarkedBy, Removing
    <3>2. CASE WriteRest(r)
      BY <1>2, <3>2 DEF WriteRest, Goto
    <3> QED BY <1>5, <3>1, <3>2
  <2>3. r \notin Doomed
    BY <2>1, DoomedIsMarked DEF Touch
  <2>4. CASE r \in ToSet(remote)
    <3>1. remote' = Append(Without(r), r)
      BY <2>1, <2>4 DEF Touch
    <3>2. Guarded(remote', Doomed) /\ Len(remote') = Len(remote)
      BY <1>0, <1>b, <2>3, <2>4, <3>1, GuardTouch
    <3>3. Without(r) \in Seq(Runs) /\ IsInjective(Without(r)) /\ ToSet(Without(r)) = ToSet(remote) \ {r}
      BY <1>0, WithoutSet
    <3>4. ToSet(remote') = ToSet(remote)
      <4> DEFINE w == Without(r)
      <4>1. w \in Seq(Runs) /\ IsInjective(w) /\ r \notin ToSet(w) /\ remote' = Append(w, r)
        BY <3>1, <3>3
      <4>2. ToSet(remote) = ToSet(w) \cup {r}
        BY <2>4, <3>3
      <4> HIDE DEF w
      <4> QED BY <4>1, <4>2, AppendSet
    <3> QED BY <1>b, <2>1, <2>2, <3>2, <3>4 DEF Guarded
  <2>5. CASE r \notin ToSet(remote)
    <3>1. remote' = remote
      BY <2>1, <2>5 DEF Touch
    <3> QED BY <1>1, <2>1, <2>2, <3>1
  <2> QED BY <2>4, <2>5
<1>6. ASSUME NEW r \in Runs, ListBackups(r)
      PROVE  Guarded(remote', Doomed') /\ (created' # ToSet(remote') => Len(remote') >= Keep)
  <2>1. /\ toDelete' = [toDelete EXCEPT ![r] = Oldest(remote)] /\ at' = [at EXCEPT ![r] = "remove"]
        /\ at[r] = "list" /\ remote' = remote /\ created' = created
    BY <1>6 DEF ListBackups, Goto
  <2>2. Doomed' \subseteq Doomed \cup ToSet(Oldest(remote))
    <3>1. \A q \in Removing' : q = r \/ (q \in Removing /\ toDelete'[q] = toDelete[q])
      BY <1>0, <2>1 DEF Removing
    <3>2. toDelete'[r] = Oldest(remote)
      BY <1>0, <2>1
    <3> QED BY <3>1, <3>2 DEF Doomed, MarkedBy
  <2>3. Guarded(remote, Doomed \cup ToSet(Oldest(remote)))
    BY <1>0, <1>b, GuardOldest
  <2> QED BY <1>b, <2>1, <2>2, <2>3 DEF Guarded
<1>7. ASSUME NEW r \in Runs, toDelete[r] # <<>>, toDelete' = [toDelete EXCEPT ![r] = Tail(@)],
             UNCHANGED at
      PROVE  Doomed' \subseteq Doomed
  <2>1. ToSet(Tail(toDelete[r])) \subseteq ToSet(toDelete[r])
    BY <1>0, <1>7, TailSet
  <2>2. \A q \in Runs : ToSet(toDelete'[q]) \subseteq ToSet(toDelete[q])
    BY <1>0, <1>7, <2>1
  <2>3. Removing' = Removing
    BY <1>7 DEF Removing
  <2> QED BY <2>2, <2>3 DEF Doomed, MarkedBy, Removing
<1>8. ASSUME NEW r \in Runs, RemoveOldest(r)
      PROVE  Guarded(remote', Doomed') /\ (created' # ToSet(remote') => Len(remote') >= Keep)
  <2> DEFINE f == Head(toDelete[r])
  <2>1. /\ toDelete[r] # <<>> /\ remote' = Without(f) /\ created' = created
        /\ at[r] = "remove" /\ at' = at /\ toDelete' = [toDelete EXCEPT ![r] = Tail(@)]
    BY <1>8 DEF RemoveOldest
  <2>2. Doomed' \subseteq Doomed
    BY <1>7, <2>1
  <2>3. f \in Doomed
    BY <1>0, <2>1, TailSet DEF Doomed, MarkedBy, Removing
  <2> HIDE DEF f
  <2>4. CASE f \in ToSet(remote)
    <3>1. Guarded(remote', Doomed) /\ Len(remote') >= Keep
      BY <1>0, <1>b, <2>1, <2>3, <2>4, GuardRemove
    <3> QED BY <2>2, <3>1 DEF Guarded
  <2>5. CASE f \notin ToSet(remote)
    <3>1. remote' = remote
      BY <2>1, <2>5 DEF Without
    <3> QED BY <1>1, <2>1, <2>2, <3>1
  <2> QED BY <2>4, <2>5
<1>9. ASSUME NEW r \in Runs, RemoveFails(r)
      PROVE  Guarded(remote', Doomed') /\ (created' # ToSet(remote') => Len(remote') >= Keep)
  BY <1>1, <1>7, <1>9 DEF RemoveFails
<1>10. CASE UNCHANGED vars
  <2>1. Doomed' = Doomed
    BY <1>10 DEF vars, Doomed, MarkedBy, Removing
  <2> QED BY <1>1, <1>10, <2>1 DEF vars
<1> QED BY <1>3, <1>4, <1>5, <1>6, <1>8, <1>9, <1>10 DEF Next
-------------------------------------------------------------------------------
(* What the server holds.  Take some of the cleanups under way that have    *)
(* missed nothing yet: what all of them leave is Keep files and those that  *)
(* the other runs owe.                                                      *)

LeftBy(S) == ToSet(remote) \ MarkedBy(S)
OwedBesides(S) == created \ (Clean \cup S)

Bounded ==
    \A S \in SUBSET (Removing \ missed) : Cardinality(LeftBy(S)) <= Keep + Cardinality(OwedBesides(S))

LEMMA SliceSize ==
    ASSUME NEW s \in Seq(Runs), IsInjective(s), NEW m \in 1..(Len(s) + 1)
    PROVE  /\ IsFiniteSet({s[i] : i \in m..Len(s)})
           /\ Cardinality({s[i] : i \in m..Len(s)}) = Len(s) - m + 1
<1> DEFINE T == {s[i] : i \in m..Len(s)}
           f == [i \in m..Len(s) |-> s[i]]
<1>0. Len(s) \in Nat /\ m \in Int /\ DOMAIN s = 1..Len(s) /\ m >= 1
  BY Elements
<1>1. IsFiniteSet(m..Len(s)) /\ Cardinality(m..Len(s)) = Len(s) - m + 1
  <2>1. IsFiniteSet(m..Len(s)) /\ Cardinality(m..Len(s)) = IF m > Len(s) THEN 0 ELSE Len(s) - m + 1
    <3>1. \A a, c \in Int : IsFiniteSet(a..c) /\ Cardinality(a..c) = IF a > c THEN 0 ELSE c - a + 1
      BY FS_Interval
    <3>2. m \in Int /\ Len(s) \in Int
      BY <1>0
    <3> QED BY <3>1, <3>2, Zenon
  <2> QED BY <1>0, <2>1
<1>2. f \in [m..Len(s) -> T]
  OBVIOUS
<1>3. f \in Surjection(m..Len(s), T)
  <2>1. \A t \in T : \E i \in m..Len(s) : f[i] = t
    OBVIOUS
  <2> QED BY <1>2, <2>1 DEF Surjection
<1>4. f \in Injection(m..Len(s), T)
  <2>1. \A i, j \in m..Len(s) : f[i] = f[j] => i = j
    BY <1>0 DEF IsInjective
  <2>2. IsInjective(f)
    BY <2>1 DEF IsInjective
  <2> QED BY <1>2, <2>2 DEF Injection
<1> HIDE DEF T, f
<1>5. IsFiniteSet(T) /\ (Cardinality(T) = Cardinality(m..Len(s)) <=> f \in Injection(m..Len(s), T))
  BY <1>1, <1>3, FS_Surjection
<1> QED BY <1>1, <1>4, <1>5 DEF T

LEMMA FilesSize ==
    ASSUME NEW s \in Seq(Runs), IsInjective(s)
    PROVE  IsFiniteSet(ToSet(s)) /\ Cardinality(ToSet(s)) = Len(s)
<1> DEFINE T == {s[i] : i \in 1..Len(s)}
<1>1. Len(s) \in Nat /\ ToSet(s) = T /\ 1 \in 1..(Len(s) + 1)
  BY Elements
<1>2. IsFiniteSet(T) /\ Cardinality(T) = Len(s) - 1 + 1
  BY <1>1, SliceSize
<1> HIDE DEF T
<1> QED BY <1>1, <1>2

(* A cleanup leaves Keep of the files it found.                             *)
LEMMA KeptSize ==
    ASSUME remote \in Seq(Runs), IsInjective(remote)
    PROVE  /\ IsFiniteSet(ToSet(remote) \ ToSet(Oldest(remote)))
           /\ Cardinality(ToSet(remote) \ ToSet(Oldest(remote))) <= Keep
<1> DEFINE K == ToSet(remote) \ ToSet(Oldest(remote))
<1>0. /\ Len(remote) \in Nat /\ Keep \in Nat
      /\ ToSet(remote) = {remote[i] : i \in 1..Len(remote)}
      /\ ToSet(Oldest(remote)) = {remote[i] : i \in 1..(Len(remote) - Keep)}
  BY Elements, OldestElements, KeepAssumption
<1>1. CASE Len(remote) <= Keep
  <2>1. IsFiniteSet(ToSet(remote)) /\ Cardinality(ToSet(remote)) <= Keep
    BY <1>1, FilesSize
  <2>2. /\ IsFiniteSet(K) /\ Cardinality(K) <= Cardinality(ToSet(remote))
        /\ Cardinality(K) \in Nat /\ Cardinality(ToSet(remote)) \in Nat
    BY <2>1, FS_Subset, FS_CardinalityType
  <2> QED BY <1>0, <2>1, <2>2
<1>2. CASE ~(Len(remote) <= Keep)
  <2> DEFINE m == Len(remote) - Keep + 1
             T == {remote[i] : i \in m..Len(remote)}
  <2>1. m \in 1..(Len(remote) + 1) /\ Len(remote) - m + 1 = Keep
    BY <1>0, <1>2
  <2>2. IsFiniteSet(T) /\ Cardinality(T) = Len(remote) - m + 1
    <3> HIDE DEF m
    <3> QED BY <2>1, SliceSize
  <2>3. K \subseteq T
    BY <1>0, <1>2
  <2> HIDE DEF T, K, m
  <2>4. IsFiniteSet(K) /\ Cardinality(K) <= Cardinality(T)
    BY <2>2, <2>3, FS_Subset
  <2> QED BY <2>1, <2>2, <2>4 DEF K
<1> QED BY <1>1, <1>2

LEMMA BoundedInit == Init => Bounded
<1> SUFFICES ASSUME Init, NEW S \in SUBSET (Removing \ missed)
             PROVE  Cardinality(LeftBy(S)) <= Keep + Cardinality(OwedBesides(S))
  BY DEF Bounded
<1>1. LeftBy(S) = {} /\ OwedBesides(S) = {}
  BY DEF Init, LeftBy, OwedBesides, ToSet
<1> QED BY <1>1, FS_EmptySet, KeepAssumption

LEMMA BoundedNext == DumpType /\ Bounded /\ [Next]_vars => Bounded'
<1> SUFFICES ASSUME DumpType, Bounded, [Next]_vars,
                    NEW S \in SUBSET (Removing' \ missed')
             PROVE  Cardinality(LeftBy(S)') <= Keep + Cardinality(OwedBesides(S)')
  BY DEF Bounded
<1>0. /\ at \in [Runs -> {"new"} \cup Active \cup Ends]
      /\ remote \in Seq(Runs) /\ IsInjective(remote) /\ Keep \in Nat
      /\ toDelete \in [Runs -> Seq(Runs)]
      /\ created \subseteq Runs
      /\ ToSet(remote) \subseteq created /\ \A r \in Runs : ToSet(toDelete[r]) \subseteq created
      /\ \A r \in Runs : at[r] \in Early => r \notin created
  BY KeepAssumption DEF DumpType, TypeOK
<1>a. \A T : IsFiniteSet(LeftBy(T)) /\ IsFiniteSet(OwedBesides(T))
  <2>1. IsFiniteSet(ToSet(remote)) /\ IsFiniteSet(created)
    BY <1>0, FilesSize, FS_Subset, RunsAssumption
  <2> QED BY <2>1, FS_Difference DEF LeftBy, OwedBesides
<1>b. \A T : Cardinality(LeftBy(T)) \in Nat /\ Cardinality(OwedBesides(T)) \in Nat
  BY <1>a, FS_CardinalityType
\* Enough: some set of cleanups that left as much and owed as little before.
<1>1. ASSUME NEW T \in SUBSET (Removing \ missed),
             LeftBy(S)' \subseteq LeftBy(T), OwedBesides(S)' = OwedBesides(T)
      PROVE  Cardinality(LeftBy(S)') <= Keep + Cardinality(OwedBesides(S)')
  <2>1. Cardinality(LeftBy(T)) <= Keep + Cardinality(OwedBesides(T))
    BY DEF Bounded
  <2>2. Cardinality(LeftBy(S)') \in Nat /\ Cardinality(LeftBy(S)') <= Cardinality(LeftBy(T))
    BY <1>1, <1>a, FS_Subset, FS_CardinalityType
  <2>3. Cardinality(OwedBesides(S)') = Cardinality(OwedBesides(T))
    BY <1>1
  <2> QED BY <1>0, <1>b, <2>1, <2>2, <2>3
<1>2. ASSUME NEW r \in Runs, NEW place, place \notin {"remove", "successful"},
             at' = [at EXCEPT ![r] = place], at[r] # "successful",
             UNCHANGED <<toDelete, created, missed>>, ToSet(remote)' = ToSet(remote)
      PROVE  Cardinality(LeftBy(S)') <= Keep + Cardinality(OwedBesides(S)')
  <2>1. Removing' \subseteq Removing /\ Clean' = Clean
    BY <1>0, <1>2 DEF Removing, Clean
  <2>2. LeftBy(S)' = LeftBy(S) /\ OwedBesides(S)' = OwedBesides(S)
    BY <1>2, <2>1 DEF LeftBy, OwedBesides, MarkedBy
  <2> QED BY <1>1, <1>2, <2>1, <2>2
<1>3. ASSUME NEW r \in Runs,
             Start(r) \/ Dump(r) \/ DumpFails(r) \/ Connect(r) \/ ConnectFails(r)
               \/ UploadFails(r) \/ ListFails(r) \/ Killed(r)
      PROVE  Cardinality(LeftBy(S)') <= Keep + Cardinality(OwedBesides(S)')
  <2>1. UNCHANGED <<remote, toDelete, created, missed>> /\ at[r] # "successful"
    BY <1>3 DEF Start, Dump, DumpFails, Connect, ConnectFails, UploadFails, ListFails, Killed,
                Active, Uploading
  <2>2. \E place : place \notin {"remove", "successful"} /\ at' = [at EXCEPT ![r] = place]
    BY <1>3 DEF Start, Dump, DumpFails, Connect, ConnectFails, UploadFails, ListFails, Killed, Goto
  <2> QED BY <1>2, <2>1, <2>2
<1>4. ASSUME NEW r \in Runs, Touch(r)
      PROVE  ToSet(remote)' = ToSet(remote)
  <2>1. CASE r \in ToSet(remote)
    <3> DEFINE w == Without(r)
    <3>1. w \in Seq(Runs) /\ IsInjective(w) /\ ToSet(w) = ToSet(remote) \ {r}
      BY <1>0, WithoutSet
    <3>2. remote' = Append(w, r)
      BY <1>4, <2>1 DEF Touch
    <3> HIDE DEF w
    <3>3. ToSet(remote)' = ToSet(w) \cup {r}
      BY <3>1, <3>2, AppendSet
    <3> QED BY <2>1, <3>1, <3>3
  <2>2. CASE r \notin ToSet(remote)
    BY <1>4, <2>2 DEF Touch
  <2> QED BY <2>1, <2>2
<1>5. ASSUME NEW r \in Runs, WriteMore(r)
      PROVE  Cardinality(LeftBy(S)') <= Keep + Cardinality(OwedBesides(S)')
  <2>1. ToSet(remote)' = ToSet(remote) /\ UNCHANGED <<at, toDelete, created, missed>>
    BY <1>4, <1>5 DEF WriteMore
  <2>2. LeftBy(S)' = LeftBy(S) /\ OwedBesides(S)' = OwedBesides(S) /\ Removing' = Removing
    BY <2>1 DEF LeftBy, OwedBesides, MarkedBy, Removing, Clean
  <2> QED BY <1>1, <2>1, <2>2
<1>6. ASSUME NEW r \in Runs, WriteRest(r)
      PROVE  Cardinality(LeftBy(S)') <= Keep + Cardinality(OwedBesides(S)')
  <2>1. ToSet(remote)' = ToSet(remote) /\ UNCHANGED <<toDelete, created, missed>>
    BY <1>4, <1>6 DEF WriteRest
  <2>2. at[r] # "successful" /\ at' = [at EXCEPT ![r] = "list"]
    BY <1>6 DEF WriteRest, Goto
  <2> QED BY <1>2, <2>1, <2>2
<1>7. ASSUME NEW r \in Runs, CreateRemote(r)
      PROVE  Cardinality(LeftBy(S)') <= Keep + Cardinality(OwedBesides(S)')
  <2>1. /\ r \notin created /\ remote' = Append(remote, r) /\ created' = created \cup {r}
        /\ at' = [at EXCEPT ![r] = "write"] /\ at[r] = "create"
        /\ toDelete' = toDelete /\ missed' = missed
    BY <1>0, <1>7 DEF CreateRemote, Early, Goto
  <2>2. Removing' = Removing /\ r \notin Removing /\ Clean' = Clean /\ r \notin Clean
    BY <1>0, <2>1 DEF Removing, Clean
  <2>3. ToSet(remote)' = ToSet(remote) \cup {r}
    BY <1>0, <2>1, AppendSet
  <2>4. LeftBy(S)' = LeftBy(S) \cup {r}
    <3>1. r \notin MarkedBy(S) /\ MarkedBy(S)' = MarkedBy(S)
      BY <1>0, <2>1, <2>2 DEF MarkedBy, Removing
    <3> QED BY <2>3, <3>1 DEF LeftBy
  <2>5. OwedBesides(S)' = OwedBesides(S) \cup {r} /\ r \notin OwedBesides(S)
    BY <2>1, <2>2 DEF OwedBesides
  <2>6. Cardinality(OwedBesides(S)') = Cardinality(OwedBesides(S)) + 1
    BY <1>a, <2>5, FS_AddElement
  <2>7. Cardinality(LeftBy(S)') <= Cardinality(LeftBy(S)) + 1
    <3>1. Cardinality(LeftBy(S) \cup {r}) =
            IF r \in LeftBy(S) THEN Cardinality(LeftBy(S)) ELSE Cardinality(LeftBy(S)) + 1
      BY <1>a, FS_AddElement
    <3>2. Cardinality(LeftBy(S) \cup {r}) <= Cardinality(LeftBy(S)) + 1
      BY <1>b, <3>1
    <3> QED BY <2>4, <3>2
  <2>8. Cardinality(LeftBy(S)) <= Keep + Cardinality(OwedBesides(S))
    BY <2>1, <2>2 DEF Bounded
  <2>9. Cardinality(LeftBy(S)') \in Nat
    BY <1>a, <2>4, FS_AddElement, FS_CardinalityType
  <2> QED BY <1>0, <1>b, <2>6, <2>7, <2>8, <2>9
<1>8. ASSUME NEW r \in Runs, ListBackups(r)
      PROVE  Cardinality(LeftBy(S)') <= Keep + Cardinality(OwedBesides(S)')
  <2>1. /\ toDelete' = [toDelete EXCEPT ![r] = Oldest(remote)] /\ at' = [at EXCEPT ![r] = "remove"]
        /\ at[r] = "list" /\ remote' = remote /\ created' = created /\ missed' = missed
    BY <1>8 DEF ListBackups, Goto
  <2>2. Clean' = Clean /\ Removing' = Removing \cup {r}
    BY <1>0, <2>1 DEF Clean, Removing
  <2>3. OwedBesides(S)' = OwedBesides(S)
    BY <2>1, <2>2 DEF OwedBesides
  <2>4. CASE r \in S
    <3>1. toDelete'[r] = Oldest(remote)
      BY <1>0, <2>1
    <3>2. LeftBy(S)' \subseteq ToSet(remote) \ ToSet(Oldest(remote))
      BY <2>1, <2>4, <3>1 DEF LeftBy, MarkedBy
    <3>3. /\ IsFiniteSet(ToSet(remote) \ ToSet(Oldest(remote)))
          /\ Cardinality(ToSet(remote) \ ToSet(Oldest(remote))) <= Keep
      BY <1>0, KeptSize
    <3>4. /\ Cardinality(LeftBy(S)') <= Cardinality(ToSet(remote) \ ToSet(Oldest(remote)))
          /\ Cardinality(LeftBy(S)') \in Nat
          /\ Cardinality(ToSet(remote) \ ToSet(Oldest(remote))) \in Nat
      BY <3>2, <3>3, FS_Subset, FS_CardinalityType
    <3> QED BY <1>0, <1>b, <2>3, <3>3, <3>4
  <2>5. CASE r \notin S
    <3>1. S \in SUBSET (Removing \ missed)
      BY <2>1, <2>2, <2>5
    <3>2. \A q \in S : toDelete'[q] = toDelete[q]
      BY <1>0, <2>1, <2>5, <3>1 DEF Removing
    <3>3. LeftBy(S)' = LeftBy(S)
      BY <2>1, <3>2 DEF LeftBy, MarkedBy
    <3> QED BY <1>1, <2>3, <3>1, <3>3
  <2> QED BY <2>4, <2>5
<1>9. ASSUME NEW r \in Runs, RemoveOldest(r)
      PROVE  Cardinality(LeftBy(S)') <= Keep + Cardinality(OwedBesides(S)')
  <2> DEFINE f == Head(toDelete[r])
  <2>1. /\ toDelete[r] # <<>> /\ toDelete' = [toDelete EXCEPT ![r] = Tail(@)]
        /\ remote' = Without(f) /\ UNCHANGED <<at, created, missed>>
    BY <1>9 DEF RemoveOldest
  <2>2. Removing' = Removing /\ Clean' = Clean
    BY <2>1 DEF Removing, Clean
  <2>3. ToSet(toDelete[r]) \subseteq ToSet(Tail(toDelete[r])) \cup {f}
    BY <1>0, <2>1, TailSet
  <2>4. \A q \in Runs : toDelete'[q] = IF q = r THEN Tail(toDelete[r]) ELSE toDelete[q]
    BY <1>0, <2>1
  <2> HIDE DEF f
  <2>5. ToSet(remote)' = ToSet(remote) \ {f}
    BY <1>0, <2>1, WithoutSet
  <2>6. MarkedBy(S) \subseteq MarkedBy(S)' \cup {f}
    BY <2>2, <2>3, <2>4 DEF MarkedBy, Removing
  <2>7. LeftBy(S)' \subseteq LeftBy(S)
    BY <2>5, <2>6 DEF LeftBy
  <2>8. OwedBesides(S)' = OwedBesides(S)
    BY <2>1, <2>2 DEF OwedBesides
  <2> QED BY <1>1, <2>1, <2>2, <2>7, <2>8
<1>10. ASSUME NEW r \in Runs, RemoveFails(r)
       PROVE  Cardinality(LeftBy(S)') <= Keep + Cardinality(OwedBesides(S)')
  <2>1. /\ at[r] = "remove" /\ toDelete' = [toDelete EXCEPT ![r] = Tail(@)]
        /\ missed' = missed \cup {r} /\ UNCHANGED <<at, remote, created>>
    BY <1>10 DEF RemoveFails
  <2>2. Removing' = Removing /\ Clean' = Clean /\ S \in SUBSET (Removing \ missed) /\ r \notin S
    BY <2>1 DEF Removing, Clean
  <2>3. \A q \in S : toDelete'[q] = toDelete[q]
    BY <1>0, <2>1, <2>2 DEF Removing
  <2>4. LeftBy(S)' = LeftBy(S) /\ OwedBesides(S)' = OwedBesides(S)
    BY <2>1, <2>2, <2>3 DEF LeftBy, MarkedBy, OwedBesides
  <2> QED BY <1>1, <2>2, <2>4
<1>11. ASSUME NEW r \in Runs, Finish(r)
       PROVE  Cardinality(LeftBy(S)') <= Keep + Cardinality(OwedBesides(S)')
  <2>1. /\ at[r] = "remove" /\ toDelete[r] = <<>> /\ at' = [at EXCEPT ![r] = "successful"]
        /\ UNCHANGED <<remote, toDelete, created, missed>>
    BY <1>11 DEF Finish, Goto
  <2>2. /\ Removing' = Removing \ {r} /\ r \in Removing
        /\ Clean' = (IF r \in missed THEN Clean ELSE Clean \cup {r})
    BY <1>0, <2>1 DEF Removing, Clean
  <2> DEFINE T == IF r \in missed THEN S ELSE S \cup {r}
  <2>3. T \in SUBSET (Removing \ missed)
    BY <2>1, <2>2
  <2>4. MarkedBy(S)' = MarkedBy(T)
    <3>1. ToSet(toDelete[r]) = {}
      BY <2>1 DEF ToSet
    <3> QED BY <2>1, <3>1 DEF MarkedBy
  <2>5. LeftBy(S)' = LeftBy(T)
    BY <2>1, <2>4 DEF LeftBy
  <2>6. OwedBesides(S)' = OwedBesides(T)
    BY <2>1, <2>2 DEF OwedBesides
  <2> HIDE DEF T
  <2> QED BY <1>1, <2>3, <2>5, <2>6
<1>12. CASE UNCHANGED vars
  <2>1. Removing' = Removing /\ missed' = missed
    BY <1>12 DEF vars, Removing
  <2>2. LeftBy(S)' = LeftBy(S) /\ OwedBesides(S)' = OwedBesides(S)
    BY <1>12 DEF vars, LeftBy, OwedBesides, MarkedBy, Clean
  <2> QED BY <1>1, <2>1, <2>2
<1> QED BY <1>3, <1>5, <1>6, <1>7, <1>8, <1>9, <1>10, <1>11, <1>12 DEF Next

-------------------------------------------------------------------------------
DumpInv == DumpType /\ Safe /\ Bounded /\ LocalFreed

LEMMA LocalNext == DumpType /\ LocalFreed /\ [Next]_vars => LocalFreed'
<1> SUFFICES ASSUME DumpType, LocalFreed, [Next]_vars, NEW q \in local'
             PROVE  at'[q] \in Active \cup {"dump failed", "killed"}
  BY DEF LocalFreed
<1>0. /\ at \in [Runs -> {"new"} \cup Active \cup Ends] /\ local \subseteq Runs
      /\ \A r \in local : at[r] \in Active \cup {"dump failed", "killed"}
  BY DEF DumpType, TypeOK, LocalFreed
<1> USE DEF Goto, Active, Uploading
<1>1. ASSUME NEW r \in Runs,
             Start(r) \/ Dump(r) \/ DumpFails(r) \/ Connect(r) \/ ConnectFails(r)
      PROVE  at'[q] \in Active \cup {"dump failed", "killed"}
  BY <1>0, <1>1 DEF Start, Dump, DumpFails, Connect, ConnectFails
<1>2. ASSUME NEW r \in Runs,
             CreateRemote(r) \/ WriteMore(r) \/ WriteRest(r) \/ UploadFails(r)
      PROVE  at'[q] \in Active \cup {"dump failed", "killed"}
  BY <1>0, <1>2 DEF CreateRemote, WriteMore, WriteRest, UploadFails
<1>3. ASSUME NEW r \in Runs,
             ListBackups(r) \/ ListFails(r) \/ RemoveOldest(r) \/ RemoveFails(r)
      PROVE  at'[q] \in Active \cup {"dump failed", "killed"}
  BY <1>0, <1>3 DEF ListBackups, ListFails, RemoveOldest, RemoveFails
<1>4. ASSUME NEW r \in Runs, Finish(r) \/ Killed(r)
      PROVE  at'[q] \in Active \cup {"dump failed", "killed"}
  BY <1>0, <1>4 DEF Finish, Killed
<1>5. CASE UNCHANGED vars
  BY <1>0, <1>5 DEF vars
<1> QED BY <1>1, <1>2, <1>3, <1>4, <1>5 DEF Next

LEMMA DumpInvariant == Spec => []DumpInv
<1>1. Init => Safe /\ LocalFreed
  BY DEF Init, Safe, Guarded, Doomed, MarkedBy, Removing, LocalFreed, ToSet
<1>2. Init => DumpInv
  BY <1>1, TypeInit, BoundedInit DEF DumpInv
<1>3. DumpInv /\ [Next]_vars => DumpInv'
  BY TypeNext, SafeNext, BoundedNext, LocalNext DEF DumpInv
<1> QED BY <1>2, <1>3, PTL DEF Spec

(* Every variable keeps its type; the remote directory never holds two      *)
(* files of a name, and no cleanup removes a file twice.                    *)
THEOREM TypeCorrect == Spec => []TypeOK
<1>1. DumpInv => TypeOK
  BY DEF DumpInv, DumpType
<1> QED BY DumpInvariant, <1>1, PTL

(* A dump stays in /tmp only while its run is active, or when the run was   *)
(* killed or its dump failed.                                               *)
THEOREM Freed == Spec => []LocalFreed
<1>1. DumpInv => LocalFreed
  BY DEF DumpInv
<1> QED BY DumpInvariant, <1>1, PTL

(* The server holds at most Keep files and one for each run whose cleanup   *)
(* is still to come or failed.                                              *)
THEOREM BoundedFiles == Spec => []FilesBounded
<1>1. DumpInv => FilesBounded
  <2> SUFFICES ASSUME DumpType, Bounded PROVE FilesBounded
    BY DEF DumpInv
  <2>1. Cardinality(LeftBy({})) <= Keep + Cardinality(OwedBesides({}))
    BY DEF Bounded
  <2>2. LeftBy({}) = ToSet(remote) /\ OwedBesides({}) = created \ Clean
    BY DEF LeftBy, MarkedBy, OwedBesides
  <2>3. Cardinality(ToSet(remote)) = Len(remote)
    BY FilesSize DEF DumpType, TypeOK
  <2> QED BY <2>1, <2>2, <2>3 DEF FilesBounded
<1> QED BY DumpInvariant, <1>1, PTL

(* A complete backup is there while fewer than Keep uploads broke off or    *)
(* are still running and no marked file was written.                        *)
THEOREM Survives == Spec => []CompleteSurvives
<1>1. DumpInv => CompleteSurvives
  <2> SUFFICES ASSUME DumpType, Safe, complete # {}, overtaken = {},
                      complete \cap ToSet(remote) = {}
               PROVE  ~(Cardinality(Partial) < Keep)
    BY DEF DumpInv, CompleteSurvives
  <2>1. /\ remote \in Seq(Runs) /\ IsInjective(remote) /\ Len(remote) \in Nat /\ Keep \in Nat
        /\ complete \subseteq created /\ created \subseteq Runs /\ ToSet(remote) \subseteq created
    BY Elements, KeepAssumption DEF DumpType, TypeOK
  <2>2. Len(remote) >= Keep
    BY <2>1 DEF Safe
  <2>3. ToSet(remote) \subseteq Partial
    BY <2>1 DEF Partial
  <2>4. IsFiniteSet(Partial)
    BY <2>1, RunsAssumption, FS_Subset DEF Partial
  <2>5. Cardinality(ToSet(remote)) <= Cardinality(Partial) /\ Cardinality(Partial) \in Nat
    BY <2>3, <2>4, FS_Subset, FS_CardinalityType
  <2>6. Cardinality(ToSet(remote)) = Len(remote)
    BY <2>1, FilesSize
  <2> QED BY <2>1, <2>2, <2>5, <2>6
<1> QED BY DumpInvariant, <1>1, PTL

(* And a file is removed only while Keep newer ones are there.              *)
THEOREM Keeps == Spec => KeepNewer
<1>1. DumpInv /\ [Next]_vars
        => [\A f \in ToSet(remote) \ ToSet(remote') :
              overtaken = {} => Len(remote) - Position(f) >= Keep]_vars
  <2> SUFFICES ASSUME DumpType, Safe, Next, overtaken = {},
                      NEW f \in ToSet(remote), f \notin ToSet(remote')
               PROVE  Len(remote) - Position(f) >= Keep
    BY DEF DumpInv
  <2>0. /\ remote \in Seq(Runs) /\ IsInjective(remote)
        /\ toDelete \in [Runs -> Seq(Runs)] /\ ToSet(remote) \subseteq Runs
    BY Elements DEF DumpType, TypeOK
  <2>1. \A r \in Runs : Touch(r) \/ remote' = remote \/ CreateRemote(r) => ToSet(remote) \subseteq ToSet(remote')
    <3> SUFFICES ASSUME NEW r \in Runs, Touch(r) \/ remote' = remote \/ CreateRemote(r),
                        NEW g \in ToSet(remote)
                 PROVE  g \in ToSet(remote')
      OBVIOUS
    <3>1. CASE remote' = remote
      BY <3>1
    <3>2. CASE remote' = Append(remote, r) /\ r \notin ToSet(remote)
      BY <2>0, <3>2, AppendSet
    <3>3. CASE remote' = Append(Without(r), r) /\ r \in ToSet(remote)
      <4> DEFINE w == Without(r)
      <4>1. w \in Seq(Runs) /\ IsInjective(w) /\ ToSet(w) = ToSet(remote) \ {r}
        BY <2>0, WithoutSet
      <4>2. remote' = Append(w, r)
        BY <3>3
      <4> HIDE DEF w
      <4>3. ToSet(remote') = ToSet(w) \cup {r}
        BY <4>1, <4>2, AppendSet
      <4> QED BY <4>1, <4>3
    <3>4. CreateRemote(r) => remote' = Append(remote, r) /\ r \notin ToSet(remote)
      BY DEF CreateRemote, DumpType, Early
    <3>5. Touch(r) => remote' = remote \/ (remote' = Append(Without(r), r) /\ r \in ToSet(remote))
      BY DEF Touch
    <3> QED BY <3>1, <3>2, <3>3, <3>4, <3>5
  <2>2. PICK r \in Runs : RemoveOldest(r)
    BY <2>1 DEF Next, Start, Dump, DumpFails, Connect, ConnectFails, CreateRemote, WriteMore,
                WriteRest, UploadFails, ListBackups, ListFails, RemoveFails, Finish, Killed
  <2>3. f = Head(toDelete[r])
    <3>1. ToSet(remote') = ToSet(remote) \ {Head(toDelete[r])}
      BY <2>0, <2>2, WithoutSet DEF RemoveOldest
    <3> QED BY <3>1
  <2>4. f \in Doomed
    BY <2>0, <2>2, <2>3, TailSet DEF RemoveOldest, Doomed, MarkedBy, Removing
  <2>5. Position(f) \in 1..Len(remote) /\ remote[Position(f)] = f
    <3>1. \E i \in DOMAIN remote : remote[i] = f
      BY DEF ToSet
    <3>2. Position(f) \in DOMAIN remote /\ remote[Position(f)] = f
      BY <3>1 DEF Position
    <3> QED BY <2>0, <3>2, Elements
  <2> QED BY <2>4, <2>5 DEF Safe, Guarded
<1> QED BY DumpInvariant, <1>1, PTL DEF Spec, KeepNewer
===============================================================================
