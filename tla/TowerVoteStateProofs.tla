------------------------ MODULE TowerVoteStateProofs ------------------------
(***************************************************************************)
(* Facts about the vote stack, for every depth MAX_LOCKOUT_HISTORY and     *)
(* every lockout that does not decrease with the confirmation count: what  *)
(* recording a vote, adopting a suffix and restoring a suffix preserve,    *)
(* what keeps the votes on one fork, and when one tower continues another. *)
(***************************************************************************)
EXTENDS TowerVoteState, TLAPS, WellFoundedInduction

(* Every non-empty set of naturals has a least element. *)
LEMMA LeastNatural ==
  ASSUME NEW T \in SUBSET Nat, T # {}
  PROVE  \E m \in T : \A x \in T : m <= x
<1>1. IsWellFoundedOn(OpToRel(<, Nat), Nat)
  BY NatLessThanWellFounded, Zenon
<1>2. PICK m \in T : \A x \in T : ~(<<x, m>> \in OpToRel(<, Nat))
  BY <1>1, WFMin, Zenon
<1>3. \A x \in T : x < m <=> <<x, m>> \in OpToRel(<, Nat)
  BY DEF OpToRel
<1>4. \A x \in T : ~(x < m)
  BY <1>2, <1>3, Zenon
<1> QED
  BY <1>4

(* LastIndex picks the greatest element of a set of indices, or 0: the     *)
(* index at which the pop loop and the retain calls cut the stack.         *)
LEMMA LastIndexGreatest ==
  ASSUME NEW n \in Nat, NEW T \in SUBSET (1..n)
  PROVE  /\ LastIndex(T) \in T \cup {0}
         /\ LastIndex(T) \in 0..n
         /\ \A i \in T : i <= LastIndex(T)
<1> DEFINE D == {d \in 0..n : (n - d) \in T \cup {0}}
<1>1. D \in SUBSET Nat /\ n \in D
  OBVIOUS
<1>2. PICK m \in D : \A x \in D : m <= x
  BY <1>1, LeastNatural, Zenon
<1>3. n - m \in T \cup {0} /\ \A i \in T : i <= n - m
  <2>1. n - m \in T \cup {0}
    BY <1>2
  <2>2. ASSUME NEW i \in T PROVE i <= n - m
    <3>1. n - (n - i) = i /\ n - i \in 0..n
      OBVIOUS
    <3>2. n - i \in D
      BY <3>1
    <3> QED
      BY <1>2, <3>2
  <2> QED
    BY <2>1, <2>2
<1>4. \E k \in T \cup {0} : \A i \in T : i <= k
  BY <1>3
<1>5. LastIndex(T) \in T \cup {0} /\ \A i \in T : i <= LastIndex(T)
  BY <1>4, Zenon DEF LastIndex
<1>6. T \cup {0} \subseteq 0..n
  OBVIOUS
<1> QED
  BY <1>5, <1>6, Zenon

(* What membership in Seq(Lockout) says about the votes of a stack. *)
LEMMA VotesType ==
  ASSUME NEW votes \in Seq(Lockout)
  PROVE  /\ Len(votes) \in Nat /\ DOMAIN votes = 1..Len(votes)
         /\ \A i \in 1..Len(votes) :
              /\ votes[i] \in Lockout
              /\ votes[i].slot \in Nat
              /\ votes[i].conf \in 1..MAX_LOCKOUT_HISTORY
              /\ LOCKOUT[votes[i].conf] \in Nat \ {0}
              /\ LastLockedOutSlot(votes[i]) \in Nat
<1>1. Len(votes) \in Nat /\ DOMAIN votes = 1..Len(votes)
      /\ \A i \in 1..Len(votes) : votes[i] \in Lockout
  OBVIOUS
<1>2. \A v \in Lockout : /\ v.slot \in Nat
                         /\ v.conf \in 1..MAX_LOCKOUT_HISTORY
                         /\ LOCKOUT[v.conf] \in Nat \ {0}
                         /\ LastLockedOutSlot(v) \in Nat
  BY LockoutAssumption DEF Lockout, Slot, LastLockedOutSlot
<1> QED
  BY <1>1, <1>2

(* A vote locks for no fewer slots after gaining confirmations. *)
LEMMA LockoutMonotone ==
  ASSUME NEW u \in Lockout, NEW v \in Lockout,
         u.slot = v.slot, u.conf <= v.conf
  PROVE  /\ LastLockedOutSlot(u) \in Nat /\ LastLockedOutSlot(v) \in Nat
         /\ LastLockedOutSlot(u) <= LastLockedOutSlot(v)
<1>1. /\ u.conf \in 0..MAX_LOCKOUT_HISTORY /\ v.conf \in 0..MAX_LOCKOUT_HISTORY
      /\ u.slot \in Nat /\ v.slot \in Nat
  BY LockoutAssumption DEF Lockout, Slot
<1>2. /\ LOCKOUT[u.conf] \in Nat /\ LOCKOUT[v.conf] \in Nat
      /\ LOCKOUT[u.conf] <= LOCKOUT[v.conf]
  BY <1>1, LockoutAssumption
<1> QED
  BY <1>1, <1>2 DEF LastLockedOutSlot

(* A suffix of a well-formed stack is well formed: what adopting a tower   *)
(* from a bank and restoring one from disk retain.                         *)
LEMMA SuffixWellFormed ==
  ASSUME NEW votes \in Seq(Lockout), WellFormedVotes(votes),
         NEW k \in 0..Len(votes)
  PROVE  LET w == SubSeq(votes, k + 1, Len(votes)) IN
         /\ w \in Seq(Lockout) /\ Len(w) = Len(votes) - k
         /\ \A i \in 1..Len(w) : w[i] = votes[k + i]
         /\ WellFormedVotes(w)
<1> DEFINE w == SubSeq(votes, k + 1, Len(votes))
<1>1. w \in Seq(Lockout) /\ Len(w) = Len(votes) - k
      /\ \A i \in 1..Len(w) : w[i] = votes[k + i]
  <2>1. \A i \in (k + 1)..Len(votes) : votes[i] \in Lockout
    BY VotesType
  <2> QED
    BY <2>1, VotesType
<1> HIDE DEF w
<1>2. DOMAIN w = 1..Len(w)
  BY <1>1
<1>3. Len(w) <= MAX_LOCKOUT_HISTORY
  BY <1>1, LockoutAssumption DEF WellFormedVotes
<1>4. ASSUME NEW i \in 1..Len(w)
      PROVE  w[i].conf >= Len(w) - i + 1
  <2>1. k + i \in DOMAIN votes /\ votes[k + i].conf \in Nat /\ w[i] = votes[k + i]
    BY <1>1, VotesType
  <2>2. votes[k + i].conf >= Len(votes) - (k + i) + 1
    BY <2>1 DEF WellFormedVotes
  <2> QED
    BY <1>1, <2>1, <2>2
<1>5. ASSUME NEW i \in 1..(Len(w) - 1)
      PROVE  /\ w[i].slot < w[i + 1].slot
             /\ w[i].conf > w[i + 1].conf
             /\ w[i + 1].slot <= LastLockedOutSlot(w[i])
  <2>1. w[i] = votes[k + i] /\ w[i + 1] = votes[(k + i) + 1]
        /\ k + i \in 1..(Len(votes) - 1)
    <3>1. Len(votes) \in Nat /\ Len(w) = Len(votes) - k
      BY <1>1
    <3>2. /\ i \in 1..Len(w) /\ i + 1 \in 1..Len(w)
          /\ k + (i + 1) = (k + i) + 1 /\ k + i \in 1..(Len(votes) - 1)
      BY <3>1
    <3>3. \A j \in 1..Len(w) : w[j] = votes[k + j]
      BY <1>1
    <3>4. w[i] = votes[k + i] /\ w[i + 1] = votes[k + (i + 1)]
      BY <3>2, <3>3
    <3> QED
      BY <3>2, <3>4
  <2> QED
    BY <2>1 DEF WellFormedVotes
<1>6. WellFormedVotes(w)
  BY <1>2, <1>3, <1>4, <1>5 DEF WellFormedVotes
<1> QED
  BY <1>1, <1>6, Zenon DEF w

(* A prefix of a well-formed stack is well formed: what pop_expired_votes  *)
(* leaves.                                                                 *)
LEMMA PrefixWellFormed ==
  ASSUME NEW votes \in Seq(Lockout), WellFormedVotes(votes),
         NEW k \in 0..Len(votes)
  PROVE  LET w == SubSeq(votes, 1, k) IN
         /\ w \in Seq(Lockout) /\ Len(w) = k
         /\ \A i \in 1..k : w[i] = votes[i]
         /\ WellFormedVotes(w)
<1> DEFINE w == SubSeq(votes, 1, k)
<1>1. w \in Seq(Lockout) /\ Len(w) = k /\ \A i \in 1..k : w[i] = votes[i]
  <2>1. \A i \in 1..k : votes[i] \in Lockout
    BY VotesType
  <2> QED
    BY <2>1, VotesType
<1> HIDE DEF w
<1>2. DOMAIN w = 1..Len(w)
  BY <1>1
<1>3. Len(w) <= MAX_LOCKOUT_HISTORY
  BY <1>1, LockoutAssumption DEF WellFormedVotes
<1>4. ASSUME NEW i \in 1..Len(w)
      PROVE  w[i].conf >= Len(w) - i + 1
  <2>1. i \in DOMAIN votes /\ votes[i].conf \in Nat /\ w[i] = votes[i]
    BY <1>1, VotesType
  <2>2. votes[i].conf >= Len(votes) - i + 1
    BY <2>1 DEF WellFormedVotes
  <2> QED
    BY <1>1, <2>1, <2>2
<1>5. ASSUME NEW i \in 1..(Len(w) - 1)
      PROVE  /\ w[i].slot < w[i + 1].slot
             /\ w[i].conf > w[i + 1].conf
             /\ w[i + 1].slot <= LastLockedOutSlot(w[i])
  <2>1. w[i] = votes[i] /\ w[i + 1] = votes[i + 1]
        /\ i \in 1..(Len(votes) - 1)
    BY <1>1
  <2> QED
    BY <2>1, Zenon DEF WellFormedVotes
<1>6. WellFormedVotes(w)
  BY <1>2, <1>3, <1>4, <1>5 DEF WellFormedVotes
<1> QED
  BY <1>1, <1>6 DEF w

(* Along a well-formed stack slots increase, not only between neighbours.  *)
LEMMA VotesOrdered ==
  ASSUME NEW votes \in Seq(Lockout), WellFormedVotes(votes)
  PROVE  \A i, j \in 1..Len(votes) :
           i < j => votes[i].slot < votes[j].slot
<1> SUFFICES ASSUME NEW i \in 1..Len(votes), NEW j \in 1..Len(votes), i < j,
                    ~(votes[i].slot < votes[j].slot)
             PROVE  FALSE
  OBVIOUS
<1> DEFINE T == {k \in Nat : i < k /\ k <= Len(votes)
                              /\ ~(votes[i].slot < votes[k].slot)}
<1>1. T \in SUBSET Nat /\ j \in T
  OBVIOUS
<1>2. PICK m \in T : \A x \in T : m <= x
  BY <1>1, LeastNatural, Zenon
<1>3. m - 1 \in 1..(Len(votes) - 1) /\ (m - 1) + 1 = m /\ m - 1 >= i
  BY <1>2, VotesType
<1>4. votes[m - 1].slot < votes[m].slot
  BY <1>3, Zenon DEF WellFormedVotes
<1>5. m - 1 \notin T
  <2>1. m \in Nat
    BY <1>1, <1>2, Zenon
  <2>2. ~(m <= m - 1)
    BY <2>1
  <2> QED
    BY <1>2, <2>2, Zenon
<1>6. votes[i].slot \in Nat /\ votes[m - 1].slot \in Nat /\ votes[m].slot \in Nat
  <2>1. m - 1 \in 1..Len(votes) /\ m \in 1..Len(votes)
    BY <1>2, <1>3, VotesType
  <2> QED
    BY <2>1, VotesType, Zenon
<1>7. votes[i].slot <= votes[m - 1].slot
  <2>1. CASE i = m - 1
    BY <1>6, <2>1
  <2>2. CASE i # m - 1
    <3>1. m - 1 \in Nat /\ i < m - 1 /\ m - 1 <= Len(votes)
      BY <1>3, <2>2
    <3>2. votes[i].slot < votes[m - 1].slot
      BY <1>5, <3>1, Zenon
    <3> QED
      BY <1>6, <3>2
  <2> QED
    BY <2>1, <2>2
<1> QED
  BY <1>2, <1>4, <1>6, <1>7

(* The last vote of a well-formed stack is its newest. *)
LEMMA LastVoteNewest ==
  ASSUME NEW vs \in VoteState, WellFormedVotes(vs.votes)
  PROVE  /\ LastVotedSlot(vs) \in Slot \cup {NoSlot}
         /\ \A i \in 1..Len(vs.votes) : vs.votes[i].slot <= LastVotedSlot(vs)
<1>1. vs.votes \in Seq(Lockout)
  BY DEF VoteState
<1>2. CASE vs.votes = <<>>
  BY <1>2 DEF LastVotedSlot
<1>3. CASE vs.votes # <<>>
  <2>1. Len(vs.votes) \in 1..Len(vs.votes)
    BY <1>1, <1>3
  <2>2. LastVotedSlot(vs) = vs.votes[Len(vs.votes)].slot
    BY <1>3 DEF LastVotedSlot
  <2>3. vs.votes[Len(vs.votes)].slot \in Slot
    BY <1>1, <2>1, VotesType DEF Slot
  <2>4. ASSUME NEW i \in 1..Len(vs.votes)
        PROVE  vs.votes[i].slot <= vs.votes[Len(vs.votes)].slot
    <3>1. CASE i = Len(vs.votes)
      BY <2>3, <3>1 DEF Slot
    <3>2. CASE i < Len(vs.votes)
      <4>1. vs.votes[i].slot < vs.votes[Len(vs.votes)].slot
        BY <1>1, <2>1, <3>2, VotesOrdered
      <4>2. vs.votes[i].slot \in Nat
        BY <1>1, VotesType
      <4> QED
        BY <2>3, <4>1, <4>2 DEF Slot
    <3> QED
      BY <2>1, <3>1, <3>2
  <2> QED
    BY <2>2, <2>3, <2>4
<1> QED
  BY <1>2, <1>3

(* double_lockouts raises the i-th of n votes to at least n - i + 1        *)
(* confirmations.  On a stack that is well formed but for the vote pushed  *)
(* last, it restores well-formedness.                                      *)
LEMMA DoubleLockoutsWellFormed ==
  ASSUME NEW base \in Seq(Lockout), WellFormedVotes(base),
         Len(base) < MAX_LOCKOUT_HISTORY, NEW s \in Slot,
         base # <<>> => /\ base[Len(base)].slot < s
                        /\ s <= LastLockedOutSlot(base[Len(base)])
  PROVE  LET w == DoubleLockouts(Append(base, [slot |-> s, conf |-> 1])) IN
         /\ w \in Seq(Lockout) /\ Len(w) = Len(base) + 1
         /\ w[Len(base) + 1] = [slot |-> s, conf |-> 1]
         /\ \A i \in 1..Len(base) : /\ w[i].slot = base[i].slot
                                    /\ w[i].conf >= base[i].conf
         /\ WellFormedVotes(w)
<1> DEFINE top == [slot |-> s, conf |-> 1]
           a == Append(base, top)
           n == Len(base) + 1
           w == DoubleLockouts(a)
<1>1. n \in 1..MAX_LOCKOUT_HISTORY /\ Len(base) = n - 1 /\ n \in Nat
  BY VotesType, LockoutAssumption
<1>2. top \in Lockout
  BY LockoutAssumption DEF Lockout
<1>3. Len(a) = n /\ a[n] = top /\ \A i \in 1..(n - 1) : a[i] = base[i]
  BY <1>1
<1>4. w = [i \in 1..n |-> IF n > (i - 1) + a[i].conf
                         THEN [a[i] EXCEPT !.conf = @ + 1] ELSE a[i]]
  BY <1>3 DEF DoubleLockouts
<1> HIDE DEF a, n, w
<1>5. \A i \in 1..n : /\ a[i] \in Lockout
                       /\ a[i].conf \in 1..MAX_LOCKOUT_HISTORY
                       /\ a[i].conf >= n - i
                       /\ a[i].slot \in Nat
  <2>1. \A i \in 1..(n - 1) : base[i].conf >= (n - 1) - i + 1
    BY <1>1, VotesType, Zenon DEF WellFormedVotes
  <2>2. \A v \in Lockout : v.conf \in 1..MAX_LOCKOUT_HISTORY /\ v.slot \in Nat
    BY DEF Lockout, Slot
  <2> QED
    BY <1>1, <1>2, <1>3, <2>1, <2>2
<1>6. ASSUME NEW i \in 1..n
      PROVE  /\ w[i] \in Lockout /\ w[i].slot = a[i].slot
             /\ w[i].conf \in 1..MAX_LOCKOUT_HISTORY
             /\ w[i].conf = IF a[i].conf > n - i THEN a[i].conf ELSE n - i + 1
  <2>1. w[i] = IF n > (i - 1) + a[i].conf
               THEN [a[i] EXCEPT !.conf = @ + 1] ELSE a[i]
    BY <1>4
  <2>2. CASE n > (i - 1) + a[i].conf
    <3>1. a[i].conf = n - i
      BY <1>1, <1>5, <2>2
    <3>2. [a[i] EXCEPT !.conf = @ + 1] = [slot |-> a[i].slot, conf |-> a[i].conf + 1]
      BY <1>5 DEF Lockout
    <3>3. w[i] = [slot |-> a[i].slot, conf |-> (n - i) + 1]
      BY <2>1, <2>2, <3>1, <3>2
    <3>4. (n - i) + 1 \in 1..MAX_LOCKOUT_HISTORY /\ a[i].slot \in Nat
      <4>1. MAX_LOCKOUT_HISTORY \in Nat /\ i \in 1..n
        BY LockoutAssumption
      <4>2. (n - i) + 1 \in 1..MAX_LOCKOUT_HISTORY
        BY <1>1, <4>1
      <4> QED
        BY <1>5, <4>2
    <3> QED
      BY <1>1, <3>1, <3>3, <3>4 DEF Lockout, Slot
  <2>3. CASE ~(n > (i - 1) + a[i].conf)
    BY <1>1, <1>5, <2>1, <2>3
  <2> QED
    BY <2>2, <2>3
<1>7. ASSUME NEW i \in 1..n
      PROVE  w[i].conf >= a[i].conf /\ w[i].conf >= n - i + 1
  <2>1. /\ a[i].conf \in Nat /\ a[i].conf >= n - i
        /\ w[i].conf = IF a[i].conf > n - i THEN a[i].conf ELSE n - i + 1
    BY <1>5, <1>6
  <2> QED
    BY <1>1, <2>1
<1>8. w \in Seq(Lockout) /\ Len(w) = n /\ DOMAIN w = 1..n
  <2>1. w \in [1..n -> Lockout]
    BY <1>4, <1>6
  <2> QED
    BY <1>1, <2>1
<1>9. ASSUME NEW i \in 1..(n - 1)
      PROVE  /\ w[i].slot < w[i + 1].slot
             /\ w[i].conf > w[i + 1].conf
             /\ w[i + 1].slot <= LastLockedOutSlot(w[i])
  <2>1. /\ i \in Nat /\ i \in 1..n /\ i + 1 \in 1..n
        /\ i \in 1..Len(base) /\ a[i] = base[i]
    BY <1>1, <1>3
  <2>2. /\ a[i].slot < a[i + 1].slot
        /\ a[i].conf > a[i + 1].conf \/ i + 1 = n
        /\ a[i + 1].slot <= LastLockedOutSlot(a[i])
    <3>1. CASE i + 1 = n
      <4>1. base # <<>> /\ Len(base) = i
        BY <1>1, <2>1, <3>1
      <4> QED
        BY <1>3, <2>1, <3>1, <4>1
    <3>2. CASE i + 1 # n
      <4>1. i \in 1..(Len(base) - 1) /\ a[i + 1] = base[i + 1]
        BY <1>1, <1>3, <3>2
      <4> QED
        BY <2>1, <4>1, Zenon DEF WellFormedVotes
    <3> QED
      BY <3>1, <3>2
  <2>3. /\ a[i].conf \in Nat /\ a[i + 1].conf \in Nat
        /\ w[i].conf \in Nat /\ w[i + 1].conf \in Nat
        /\ w[i].conf >= a[i].conf /\ w[i].conf >= n - i + 1
        /\ w[i + 1].conf = IF a[i + 1].conf > n - (i + 1) THEN a[i + 1].conf
                           ELSE n - (i + 1) + 1
    BY <1>5, <1>6, <1>7, <2>1
  <2>4. w[i].conf > w[i + 1].conf
    <3>1. CASE i + 1 = n
      <4>1. a[i + 1].conf = 1
        BY <1>3, <3>1
      <4> QED
        <5>1. n \in Nat /\ i \in Nat /\ n - i + 1 = 2 /\ n - (i + 1) = 0
          BY <1>1, <2>1, <3>1
        <5>2. w[i + 1].conf = 1
          BY <2>3, <4>1, <5>1
        <5> QED
          BY <2>3, <5>1, <5>2
    <3>2. CASE a[i].conf > a[i + 1].conf
      <4>1. CASE a[i + 1].conf > n - (i + 1)
        BY <2>3, <3>2, <4>1
      <4>2. CASE ~(a[i + 1].conf > n - (i + 1))
        <5>1. w[i + 1].conf = n - (i + 1) + 1
          BY <2>3, <4>2
        <5>2. n \in Nat /\ i \in Nat
          BY <1>1, <2>1
        <5>3. w[i].conf \in Nat /\ w[i].conf >= n - i + 1
          BY <2>3, Zenon
        <5> QED
          BY <5>1, <5>2, <5>3
      <4> QED
        BY <4>1, <4>2
    <3> QED
      BY <2>2, <3>1, <3>2
  <2>5. /\ LastLockedOutSlot(a[i]) \in Nat /\ LastLockedOutSlot(w[i]) \in Nat
        /\ LastLockedOutSlot(a[i]) <= LastLockedOutSlot(w[i])
    <3>1. a[i] \in Lockout /\ w[i] \in Lockout /\ a[i].slot = w[i].slot
      BY <1>5, <1>6, <2>1
    <3> QED
      BY <2>3, <3>1, LockoutMonotone
  <2>6. w[i].slot = a[i].slot /\ w[i + 1].slot = a[i + 1].slot /\ a[i + 1].slot \in Nat
    BY <1>5, <1>6, <2>1
  <2> QED
    BY <2>2, <2>4, <2>5, <2>6
<1>10. WellFormedVotes(w)
  <2>1. Len(w) <= MAX_LOCKOUT_HISTORY
    BY <1>1, <1>8
  <2>2. \A i \in DOMAIN w : w[i].conf >= Len(w) - i + 1
    BY <1>7, <1>8
  <2>3. \A i \in 1..(Len(w) - 1) :
          /\ w[i].slot < w[i + 1].slot
          /\ w[i].conf > w[i + 1].conf
          /\ w[i + 1].slot <= LastLockedOutSlot(w[i])
    BY <1>8, <1>9
  <2> QED
    BY <2>1, <2>2, <2>3 DEF WellFormedVotes
<1>11. w[n] = top
  <2>1. n \in 1..n /\ a[n].slot = s /\ a[n].conf = 1
    BY <1>1, <1>3
  <2>2. w[n].slot = s /\ w[n].conf = 1 /\ w[n] \in Lockout
    BY <1>1, <1>6, <2>1
  <2> QED
    BY <2>2 DEF Lockout
<1>12. \A i \in 1..Len(base) : w[i].slot = base[i].slot /\ w[i].conf >= base[i].conf
  <2> TAKE i \in 1..Len(base)
  <2>1. i \in 1..(n - 1) /\ i \in 1..n
    BY <1>1
  <2>2. a[i] = base[i]
    BY <1>3, <2>1
  <2> QED
    BY <1>6, <1>7, <2>1, <2>2
<1> QED
  BY <1>8, <1>10, <1>11, <1>12 DEF w, a, n

(* What pop_expired_votes leaves is a prefix whose newest vote is still    *)
(* locked out at s, and everything it pops has expired.                    *)
LEMMA PopExpiredVotesPrefix ==
  ASSUME NEW votes \in Seq(Lockout), NEW s \in Slot
  PROVE  \E k \in 0..Len(votes) :
           /\ PopExpiredVotes(votes, s) = SubSeq(votes, 1, k)
           /\ k > 0 => s <= LastLockedOutSlot(votes[k])
           /\ \A i \in (k + 1)..Len(votes) : LastLockedOutSlot(votes[i]) < s
<1> DEFINE T == {i \in DOMAIN votes : IsLockedOutAtSlot(votes[i], s)}
           k == LastIndex(T)
<1>1. Len(votes) \in Nat /\ T \in SUBSET (1..Len(votes))
  BY VotesType
<1>2. k \in T \cup {0} /\ k \in 0..Len(votes) /\ \A i \in T : i <= k
  BY <1>1, LastIndexGreatest
<1>3. PopExpiredVotes(votes, s) = SubSeq(votes, 1, k)
  BY DEF PopExpiredVotes
<1> HIDE DEF k
<1>4. k > 0 => s <= LastLockedOutSlot(votes[k])
  <2> SUFFICES ASSUME k > 0 PROVE s <= LastLockedOutSlot(votes[k])
    OBVIOUS
  <2>1. k \in T /\ k \in 1..Len(votes)
    BY <1>2
  <2>2. LastLockedOutSlot(votes[k]) \in Nat
    BY <2>1, VotesType
  <2> QED
    BY <2>1, <2>2 DEF IsLockedOutAtSlot, Slot
<1>5. ASSUME NEW i \in (k + 1)..Len(votes)
      PROVE  LastLockedOutSlot(votes[i]) < s
  <2>1. i \in 1..Len(votes) /\ i \in DOMAIN votes /\ ~(i <= k)
    BY <1>1, <1>2, VotesType
  <2>2. i \notin T /\ LastLockedOutSlot(votes[i]) \in Nat
    BY <1>2, <2>1, VotesType
  <2> QED
    BY <2>1, <2>2 DEF IsLockedOutAtSlot, Slot
<1> QED
  BY <1>2, <1>3, <1>4, <1>5, Zenon

(* What recording a vote newer than the last one makes of a stack: of its  *)
(* k oldest votes, the newest of which is still locked out at s, the first *)
(* becomes the root when they fill the stack (d = 1), the others keep or   *)
(* gain confirmations, and the new vote is on top; the rest has expired.   *)
Pushed(vs, s, w, k, d) ==
  /\ d <= k /\ (d = 1 => k = MAX_LOCKOUT_HISTORY)
  /\ w = [votes |-> w.votes, root |-> w.root]
  /\ w.votes \in Seq(Lockout) /\ WellFormedVotes(w.votes)
  /\ Len(w.votes) = k - d + 1
  /\ w.votes[k - d + 1] = [slot |-> s, conf |-> 1]
  /\ \A i \in 1..(k - d) : /\ w.votes[i].slot = vs.votes[d + i].slot
                           /\ w.votes[i].conf >= vs.votes[d + i].conf
  /\ \A i \in (k + 1)..Len(vs.votes) : LastLockedOutSlot(vs.votes[i]) < s
  /\ w.root = IF d = 1 THEN vs.votes[1].slot ELSE vs.root

(* PushVote pops some of the newest votes, drops the oldest one left when  *)
(* the stack is full, doubles and pushes.                                  *)
LEMMA PushVoteStack ==
  ASSUME NEW vs \in VoteState, WellFormedVotes(vs.votes),
         NEW s \in Slot, s > LastVotedSlot(vs)
  PROVE  /\ \A i \in 1..Len(vs.votes) : /\ vs.votes[i].slot \in Nat
                                       /\ vs.votes[i].slot < s
         /\ \E k \in 0..Len(vs.votes), d \in 0..1 :
              Pushed(vs, s, PushVote(vs, s), k, d)
<1> DEFINE votes == vs.votes
           kept == PopExpiredVotes(votes, s)
           full == Len(kept) = MAX_LOCKOUT_HISTORY
           rest == IF full THEN Tail(kept) ELSE kept
           w == PushVote(vs, s)
<1>1. votes \in Seq(Lockout) /\ vs.root \in Slot \cup {NoSlot}
  BY DEF VoteState
<1>2. PICK k \in 0..Len(votes) :
        /\ kept = SubSeq(votes, 1, k)
        /\ k > 0 => s <= LastLockedOutSlot(votes[k])
        /\ \A i \in (k + 1)..Len(votes) : LastLockedOutSlot(votes[i]) < s
  BY <1>1, PopExpiredVotesPrefix, Zenon
<1>3. /\ kept \in Seq(Lockout) /\ Len(kept) = k /\ WellFormedVotes(kept)
      /\ \A i \in 1..k : kept[i] = votes[i]
  BY <1>1, <1>2, PrefixWellFormed
<1>4. w = [votes |-> DoubleLockouts(Append(rest, [slot |-> s, conf |-> 1])),
           root  |-> IF full THEN kept[1].slot ELSE vs.root]
  BY DEF PushVote
<1>5. \A i \in 1..Len(votes) : votes[i].slot \in Nat /\ votes[i].slot < s
  <2>1. \A i \in 1..Len(votes) : votes[i].slot <= LastVotedSlot(vs)
                                /\ LastVotedSlot(vs) \in Slot \cup {NoSlot}
    BY LastVoteNewest
  <2>2. \A i \in 1..Len(votes) : votes[i].slot \in Nat
    BY <1>1, VotesType
  <2> QED
    BY <2>1, <2>2 DEF Slot, NoSlot
<1> HIDE DEF kept, w
<1>6. PICK d \in 0..1 :
        /\ d <= k
        /\ rest \in Seq(Lockout) /\ WellFormedVotes(rest)
        /\ Len(rest) = k - d /\ Len(rest) < MAX_LOCKOUT_HISTORY
        /\ \A i \in 1..(k - d) : rest[i] = votes[d + i]
        /\ d = 1 <=> full
  <2>1. CASE full
    <3>1. kept # <<>> /\ k >= 1
      BY <1>3, <2>1, LockoutAssumption
    <3>2. rest = SubSeq(kept, 1 + 1, Len(kept))
      BY <1>3, <2>1, <3>1
    <3>3. /\ rest \in Seq(Lockout) /\ Len(rest) = k - 1 /\ WellFormedVotes(rest)
          /\ \A i \in 1..Len(rest) : rest[i] = kept[1 + i]
      <4> DEFINE u == SubSeq(kept, 1 + 1, Len(kept))
      <4>1. 1 \in 0..Len(kept)
        BY <1>3, <3>1
      <4>2. /\ u \in Seq(Lockout) /\ Len(u) = Len(kept) - 1 /\ WellFormedVotes(u)
            /\ \A i \in 1..Len(u) : u[i] = kept[1 + i]
        BY <1>3, <4>1, SuffixWellFormed
      <4> HIDE DEF u, rest
      <4> QED
        BY <1>3, <3>2, <4>2 DEF u
    <3>4. \A i \in 1..(k - 1) : rest[i] = votes[1 + i]
      BY <1>3, <3>1, <3>3
    <3> WITNESS 1 \in 0..1
    <3> QED
      BY <1>3, <2>1, <3>1, <3>3, <3>4, LockoutAssumption
  <2>2. CASE ~full
    <3>1. rest = kept
      BY <2>2
    <3>2. Len(kept) < MAX_LOCKOUT_HISTORY
      BY <1>3, <2>2, LockoutAssumption DEF WellFormedVotes
    <3> WITNESS 0 \in 0..1
    <3> QED
      BY <1>3, <2>2, <3>1, <3>2
  <2> QED
    BY <2>1, <2>2, Zenon
<1> HIDE DEF rest
<1> DEFINE x == DoubleLockouts(Append(rest, [slot |-> s, conf |-> 1]))
<1>7. rest # <<>> => /\ rest[Len(rest)].slot < s
                     /\ s <= LastLockedOutSlot(rest[Len(rest)])
  <2> SUFFICES ASSUME rest # <<>>
               PROVE  /\ rest[Len(rest)].slot < s
                      /\ s <= LastLockedOutSlot(rest[Len(rest)])
    OBVIOUS
  <2>1. Len(rest) \in 1..(k - d) /\ d + (k - d) = k /\ k > 0 /\ k \in 1..Len(votes)
    BY <1>1, <1>6
  <2>2. rest[Len(rest)] = votes[k]
    BY <1>6, <2>1
  <2> QED
    BY <1>2, <1>5, <2>1, <2>2
<1>8. /\ x \in Seq(Lockout) /\ Len(x) = Len(rest) + 1 /\ WellFormedVotes(x)
      /\ x[Len(rest) + 1] = [slot |-> s, conf |-> 1]
      /\ \A i \in 1..Len(rest) : /\ x[i].slot = rest[i].slot
                                 /\ x[i].conf >= rest[i].conf
  BY <1>6, <1>7, DoubleLockoutsWellFormed, Zenon
<1>9. w.votes = x /\ w.root = IF full THEN kept[1].slot ELSE vs.root
  BY <1>4
<1> HIDE DEF x
<1>10. d = 1 => k = MAX_LOCKOUT_HISTORY /\ kept[1] = votes[1]
  BY <1>3, <1>6, LockoutAssumption
<1>11. \A i \in 1..(k - d) : /\ x[i].slot = votes[d + i].slot
                             /\ x[i].conf >= votes[d + i].conf
  BY <1>6, <1>8, Zenon
<1>12. Len(x) = k - d + 1 /\ x[k - d + 1] = [slot |-> s, conf |-> 1]
  BY <1>6, <1>8
<1>13. w.root = IF d = 1 THEN votes[1].slot ELSE vs.root
  BY <1>6, <1>9, <1>10
<1>14. w = [votes |-> w.votes, root |-> w.root]
  BY <1>4
<1>15. Pushed(vs, s, w, k, d)
  BY <1>2, <1>6, <1>8, <1>9, <1>10, <1>11, <1>12, <1>13, <1>14 DEF Pushed
<1> QED
  BY <1>5, <1>15 DEF w

(* Recording a vote newer than the last one keeps the stack well formed;   *)
(* its root is the old one or a slot voted for.  A stack above its root    *)
(* stays above it, and the root does not move back.                        *)
LEMMA PushVoteWellFormed ==
  ASSUME NEW vs \in VoteState, WellFormedVotes(vs.votes),
         NEW s \in Slot, s > LastVotedSlot(vs)
  PROVE  LET w == PushVote(vs, s) IN
         /\ w \in VoteState /\ WellFormedVotes(w.votes)
         /\ w.root \in VotedSlots(vs) \cup {vs.root}
         /\ VotedSlots(w) \subseteq VotedSlots(vs) \cup {s}
         /\ LastVotedSlot(w) = s
         /\ VotesAboveRoot(vs) /\ s > vs.root =>
              VotesAboveRoot(w) /\ w.root >= vs.root
<1> DEFINE votes == vs.votes
           w == PushVote(vs, s)
           x == w.votes
<1>1. votes \in Seq(Lockout) /\ vs.root \in Slot \cup {NoSlot}
  BY DEF VoteState
<1>2. \A i \in 1..Len(votes) : votes[i].slot \in Nat /\ votes[i].slot < s
  BY PushVoteStack
<1>3. PICK k \in 0..Len(votes), d \in 0..1 : Pushed(vs, s, w, k, d)
  BY PushVoteStack
<1> HIDE DEF w
<1>4. /\ d <= k /\ (d = 1 => k = MAX_LOCKOUT_HISTORY)
      /\ w = [votes |-> x, root |-> w.root]
      /\ x \in Seq(Lockout) /\ WellFormedVotes(x)
      /\ Len(x) = k - d + 1
      /\ x[k - d + 1] = [slot |-> s, conf |-> 1]
      /\ \A i \in 1..(k - d) : x[i].slot = votes[d + i].slot
      /\ w.root = IF d = 1 THEN votes[1].slot ELSE vs.root
      /\ w.votes = x /\ DOMAIN x = 1..Len(x)
  BY <1>3 DEF Pushed
<1> HIDE DEF x
<1>5. ASSUME NEW i \in 1..Len(x)
      PROVE  \/ i = k - d + 1 /\ x[i].slot = s
             \/ d + i \in (d + 1)..Len(votes) /\ x[i].slot = votes[d + i].slot
  <2>1. CASE i = k - d + 1
    BY <1>4, <2>1
  <2>2. CASE i # k - d + 1
    <3>1. i \in 1..(k - d) /\ d + i \in (d + 1)..Len(votes)
      BY <1>1, <1>4, <2>2
    <3> QED
      BY <1>4, <3>1
  <2> QED
    BY <2>1, <2>2
<1>6. d = 1 => 1 \in 1..Len(votes) /\ w.root = votes[1].slot
  BY <1>1, <1>4
<1>7. w.root \in VotedSlots(vs) \cup {vs.root} /\ w.root \in Slot \cup {NoSlot}
  <2>1. CASE d = 1
    BY <1>1, <1>2, <1>6, <2>1 DEF VotedSlots, Slot
  <2>2. CASE d = 0
    BY <1>1, <1>4, <2>2
  <2> QED
    BY <2>1, <2>2
<1>8. w \in VoteState
  BY <1>4, <1>7 DEF VoteState, x
<1>9. VotedSlots(w) \subseteq VotedSlots(vs) \cup {s}
  <2> SUFFICES ASSUME NEW i \in 1..Len(x)
               PROVE  x[i].slot \in VotedSlots(vs) \cup {s}
    BY <1>4, Zenon DEF VotedSlots
  <2>1. CASE d + i \in (d + 1)..Len(votes) /\ x[i].slot = votes[d + i].slot
    <3>1. d + i \in DOMAIN votes
      BY <1>1, <2>1
    <3> QED
      BY <2>1, <3>1 DEF VotedSlots
  <2> QED
    BY <1>5, <2>1
<1>10. LastVotedSlot(w) = s
  BY <1>4 DEF LastVotedSlot
<1>11. ASSUME VotesAboveRoot(vs), s > vs.root
       PROVE  VotesAboveRoot(w) /\ w.root >= vs.root
  <2>1. \A i \in 1..Len(votes) : votes[i].slot > vs.root
    BY <1>1, <1>11 DEF VotesAboveRoot
  <2>2. /\ w.root >= vs.root /\ w.root < s
        /\ \A i \in (d + 1)..Len(votes) : votes[i].slot > w.root
    <3>1. CASE d = 1
      <4>1. \A i \in 2..Len(votes) : votes[1].slot < votes[i].slot
        BY <1>1, <1>6, <3>1, VotesOrdered
      <4>2. /\ votes[1].slot \in Nat /\ votes[1].slot > vs.root /\ votes[1].slot < s
            /\ \A i \in 2..Len(votes) : votes[i].slot \in Nat
        BY <1>1, <1>2, <1>6, <2>1, <3>1
      <4> QED
        BY <1>1, <1>6, <3>1, <4>1, <4>2 DEF Slot, NoSlot
    <3>2. CASE d = 0
      BY <1>1, <1>2, <1>4, <1>11, <2>1, <3>2 DEF Slot, NoSlot
    <3> QED
      BY <3>1, <3>2
  <2>3. ASSUME NEW i \in 1..Len(x) PROVE x[i].slot > w.root
    BY <1>5, <1>7, <2>2 DEF Slot, NoSlot
  <2> QED
    BY <1>4, <2>2, <2>3 DEF VotesAboveRoot
<1> QED
  BY <1>4, <1>7, <1>8, <1>9, <1>10, <1>11 DEF w, x

(* Recording a vote forgets no lockout: a vote leaves the stack when its   *)
(* lockout has ended before the new slot, or as the new root; a vote above *)
(* a new root stays on the stack.                                          *)
LEMMA PushVoteKeepsLockouts ==
  ASSUME NEW vs \in VoteState, WellFormedVotes(vs.votes),
         NEW s \in Slot, s > LastVotedSlot(vs), MAX_LOCKOUT_HISTORY > 1
  PROVE  LET w == PushVote(vs, s) IN
         /\ \/ w.root = vs.root
            \/ /\ w.root \in VotedSlots(vs)
               /\ \E y \in VotedSlots(w) \cap VotedSlots(vs) : w.root < y
         /\ \A i \in DOMAIN vs.votes :
              \/ LastLockedOutSlot(vs.votes[i]) < s
              \/ w.root = vs.votes[i].slot
              \/ \E j \in DOMAIN w.votes :
                   /\ w.votes[j].slot = vs.votes[i].slot
                   /\ LastLockedOutSlot(w.votes[j]) >= LastLockedOutSlot(vs.votes[i])
<1> DEFINE votes == vs.votes
           w == PushVote(vs, s)
           x == w.votes
<1>1. votes \in Seq(Lockout) /\ DOMAIN votes = 1..Len(votes)
  BY DEF VoteState
<1>2. PICK k \in 0..Len(votes), d \in 0..1 : Pushed(vs, s, w, k, d)
  BY PushVoteStack
<1> HIDE DEF w
<1>3. /\ d <= k /\ (d = 1 => k = MAX_LOCKOUT_HISTORY)
      /\ x \in Seq(Lockout)
      /\ Len(x) = k - d + 1
      /\ \A i \in 1..(k - d) : /\ x[i].slot = votes[d + i].slot
                               /\ x[i].conf >= votes[d + i].conf
      /\ \A i \in (k + 1)..Len(votes) : LastLockedOutSlot(votes[i]) < s
      /\ w.root = IF d = 1 THEN votes[1].slot ELSE vs.root
  BY <1>2 DEF Pushed
<1> HIDE DEF x
<1>4. \/ w.root = vs.root
      \/ /\ w.root \in VotedSlots(vs)
         /\ \E y \in VotedSlots(w) \cap VotedSlots(vs) : w.root < y
  <2> SUFFICES ASSUME d = 1
               PROVE  /\ w.root \in VotedSlots(vs)
                      /\ \E y \in VotedSlots(w) \cap VotedSlots(vs) : w.root < y
    BY <1>3
  <2>1. 1 \in 1..(k - d) /\ 1 \in 1..Len(votes) /\ 2 \in 1..Len(votes)
        /\ 1 \in DOMAIN x
    BY <1>1, <1>3, LockoutAssumption
  <2>2. w.root = votes[1].slot /\ x[1].slot = votes[2].slot
    BY <1>3, <2>1
  <2>3. votes[1].slot < votes[2].slot
    BY <1>1, <2>1, VotesOrdered
  <2>4. votes[1].slot \in VotedSlots(vs) /\ votes[2].slot \in VotedSlots(vs)
        /\ x[1].slot \in VotedSlots(w)
    BY <1>1, <2>1 DEF VotedSlots, x
  <2> QED
    BY <2>2, <2>3, <2>4
<1>5. ASSUME NEW i \in 1..Len(votes), ~(LastLockedOutSlot(votes[i]) < s),
             w.root # votes[i].slot
      PROVE  \E j \in DOMAIN x :
               /\ x[j].slot = votes[i].slot
               /\ LastLockedOutSlot(x[j]) >= LastLockedOutSlot(votes[i])
  <2>1. i \in 1..k /\ i # d
    BY <1>3, <1>5
  <2>2. i - d \in 1..(k - d) /\ d + (i - d) = i /\ i - d \in DOMAIN x
    BY <1>3, <2>1
  <2>3. /\ x[i - d].slot = votes[i].slot /\ x[i - d].conf >= votes[i].conf
        /\ x[i - d] \in Lockout /\ votes[i] \in Lockout
    <3>1. \A n \in 1..(k - d) : /\ x[n].slot = votes[d + n].slot
                                /\ x[n].conf >= votes[d + n].conf
      BY <1>3
    <3>2. /\ x[i - d].slot = votes[d + (i - d)].slot
          /\ x[i - d].conf >= votes[d + (i - d)].conf
      BY <2>2, <3>1
    <3>3. x[i - d] \in Lockout
      BY <1>3, <2>2
    <3>4. votes[i] \in Lockout
      BY <1>1
    <3> QED
      BY <2>2, <3>2, <3>3, <3>4
  <2>4. x[i - d].conf \in Nat /\ votes[i].conf \in Nat
    BY <2>3 DEF Lockout
  <2>5. LastLockedOutSlot(x[i - d]) >= LastLockedOutSlot(votes[i])
    BY <2>3, <2>4, LockoutMonotone
  <2> QED
    BY <2>2, <2>3, <2>5
<1> QED
  BY <1>1, <1>4, <1>5 DEF w, x

(* What retain(|v| v.slot() > s) leaves of a stack: a well-formed suffix   *)
(* of votes newer than s.                                                  *)
LEMMA RetainAboveWellFormed ==
  ASSUME NEW votes \in Seq(Lockout), WellFormedVotes(votes),
         NEW s \in Slot \cup {NoSlot}
  PROVE  LET w == RetainAbove(votes, s) IN
         /\ w \in Seq(Lockout) /\ WellFormedVotes(w)
         /\ \A i \in DOMAIN w : w[i].slot > s
         /\ \A i \in DOMAIN w : \E j \in DOMAIN votes : w[i] = votes[j]
<1> DEFINE T == {i \in DOMAIN votes : votes[i].slot <= s}
           k == LastIndex(T)
           w == RetainAbove(votes, s)
<1>1. Len(votes) \in Nat /\ T \in SUBSET (1..Len(votes))
  BY VotesType
<1>2. k \in 0..Len(votes) /\ \A i \in T : i <= k
  BY <1>1, LastIndexGreatest
<1>3. w = SubSeq(votes, k + 1, Len(votes))
  BY DEF RetainAbove
<1> HIDE DEF k, w
<1>4. /\ w \in Seq(Lockout) /\ Len(w) = Len(votes) - k /\ WellFormedVotes(w)
      /\ \A i \in 1..Len(w) : w[i] = votes[k + i]
  BY <1>2, <1>3, SuffixWellFormed
<1>5. ASSUME NEW i \in 1..Len(w)
      PROVE  w[i].slot > s /\ \E j \in DOMAIN votes : w[i] = votes[j]
  <2>1. k + i \in 1..Len(votes) /\ k + i \in DOMAIN votes /\ ~(k + i <= k)
    BY <1>1, <1>2, <1>4
  <2>2. k + i \notin T /\ votes[k + i].slot \in Nat
    BY <1>2, <2>1, VotesType
  <2> QED
    BY <1>4, <2>1, <2>2 DEF Slot, NoSlot
<1> QED
  BY <1>4, <1>5 DEF w

-----------------------------------------------------------------------------
(* A well-formed tower that only names blocks of B. *)
TowerOver(t, B) ==
  /\ t \in VoteState /\ WellFormedVotes(t.votes)
  /\ VotedSlots(t) \subseteq B /\ t.root \in B \cup {NoSlot}

(* The empty vote state is a tower over any blocks. *)
LEMMA EmptyTowerOver == ASSUME NEW B PROVE TowerOver(EmptyVoteState, B)
<1>1. <<>> \in Seq(Lockout) /\ Len(<<>>) = 0
  OBVIOUS
<1>2. WellFormedVotes(<<>>)
  BY <1>1, LockoutAssumption DEF WellFormedVotes
<1> QED
  BY <1>1, <1>2 DEF TowerOver, EmptyVoteState, VoteState, VotedSlots

(* New blocks do not disturb a tower. *)
LEMMA TowerOverMonotone ==
  ASSUME NEW B, NEW C, B \subseteq C, NEW t, TowerOver(t, B)
  PROVE  TowerOver(t, C)
BY DEF TowerOver

-----------------------------------------------------------------------------
(* The votes of t and its root lie on one fork, with the ancestors anc.    *)
OnOneFork(t, anc) ==
  t.votes # <<>> =>
    /\ t.root # NoSlot
    /\ \A i \in DOMAIN t.votes :
         /\ t.root \in anc[t.votes[i].slot]
         /\ \A j \in 1..(i - 1) : t.votes[j].slot \in anc[t.votes[i].slot]

(* The ancestors of a block of B are older and form a chain.               *)
ChainsOf(B, anc) ==
  \A b \in B : \A a \in anc[b] :
    /\ a < b /\ anc[a] \subseteq anc[b]
    /\ \A c \in anc[b] : a < c => a \in anc[c]

HasChild(r, B, anc) == \E b \in B : r \in anc[b]

(* What holds of the tower in memory, B being the banks: the tower that a  *)
(* restart leaves may hold votes on other forks than its root, but none    *)
(* that the root descends from, and the root is no tip that could be voted *)
(* on again.                                                               *)
RootApart(t, B, anc) ==
  /\ \A i \in DOMAIN t.votes :
       t.votes[i].slot # t.root /\ t.votes[i].slot \notin anc[t.root]
  /\ VotesAboveRoot(t) \/ HasChild(t.root, B, anc)

(* The empty vote state is on one fork. *)
LEMMA EmptyOnOneFork == ASSUME NEW anc PROVE OnOneFork(EmptyVoteState, anc)
BY DEF OnOneFork, EmptyVoteState

(* The slots of a tower over the blocks, and its root, are blocks.         *)
LEMMA TowerSlots ==
  ASSUME NEW B \in SUBSET Slot, NEW t, TowerOver(t, B)
  PROVE  /\ t.votes \in Seq(Lockout) /\ Len(t.votes) \in Nat
         /\ DOMAIN t.votes = 1..Len(t.votes)
         /\ \A i \in DOMAIN t.votes : t.votes[i].slot \in B
         /\ \A i \in DOMAIN t.votes : t.votes[i].slot \in Nat
         /\ \A i, j \in DOMAIN t.votes : i < j => t.votes[i].slot < t.votes[j].slot
         /\ t.root # NoSlot => t.root \in B /\ t.root \in Nat
<1>1. t.votes \in Seq(Lockout) /\ WellFormedVotes(t.votes)
  BY DEF TowerOver, VoteState
<1>2. /\ Len(t.votes) \in Nat /\ DOMAIN t.votes = 1..Len(t.votes)
      /\ \A i \in DOMAIN t.votes : t.votes[i].slot \in Nat
  BY <1>1, VotesType
<1>3. \A i, j \in DOMAIN t.votes : i < j => t.votes[i].slot < t.votes[j].slot
  BY <1>1, <1>2, VotesOrdered
<1>4. /\ \A i \in DOMAIN t.votes : t.votes[i].slot \in B
      /\ t.root # NoSlot => t.root \in B /\ t.root \in Nat
  BY Zenon DEF TowerOver, VotedSlots, Slot
<1> QED
  BY <1>1, <1>2, <1>3, <1>4

(* A tower on one fork has its votes above its root, and a tower with its  *)
(* votes above its root is apart from it.                                  *)
LEMMA OnOneForkAbove ==
  ASSUME NEW B \in SUBSET Slot, NEW anc, ChainsOf(B, anc),
         NEW t, TowerOver(t, B), OnOneFork(t, anc)
  PROVE  VotesAboveRoot(t)
<1> SUFFICES ASSUME NEW i \in DOMAIN t.votes PROVE t.votes[i].slot > t.root
  BY DEF VotesAboveRoot
<1>1. t.votes[i].slot \in B /\ t.votes[i].slot \in Nat
      /\ (t.root # NoSlot => t.root \in Nat)
  BY TowerSlots, Zenon
<1>2. t.root \in anc[t.votes[i].slot] /\ t.root # NoSlot
  <2>1. t.votes # <<>>
    OBVIOUS
  <2> QED
    BY <2>1 DEF OnOneFork
<1>3. t.root < t.votes[i].slot
  BY <1>1, <1>2 DEF ChainsOf
<1> QED
  BY <1>1, <1>2, <1>3

(* Votes above the root are apart from it. *)
LEMMA AboveIsApart ==
  ASSUME NEW B \in SUBSET Slot, NEW anc \in [B -> SUBSET B], ChainsOf(B, anc),
         NEW t, TowerOver(t, B), t.root # NoSlot, VotesAboveRoot(t), NEW C
  PROVE  RootApart(t, C, anc)
<1>1. t.root \in B /\ t.root \in Nat
      /\ \A i \in DOMAIN t.votes : t.votes[i].slot \in Nat
  BY TowerSlots, Zenon
<1>2. \A a \in anc[t.root] : a < t.root
  BY <1>1 DEF ChainsOf
<1>3. ASSUME NEW i \in DOMAIN t.votes
      PROVE  t.votes[i].slot # t.root /\ t.votes[i].slot \notin anc[t.root]
  <2>1. t.votes[i].slot > t.root /\ t.votes[i].slot \in Nat
    BY <1>1 DEF VotesAboveRoot
  <2> QED
    BY <1>1, <1>2, <2>1
<1> QED
  BY <1>3 DEF RootApart

(* New blocks leave the towers over the old ones on their forks.           *)
LEMMA OnOneForkAgree ==
  ASSUME NEW B, NEW anc, NEW anc2, \A b \in B : anc2[b] = anc[b],
         NEW t, TowerOver(t, B), OnOneFork(t, anc)
  PROVE  OnOneFork(t, anc2)
<1>1. \A i \in DOMAIN t.votes : t.votes[i].slot \in B
  BY DEF TowerOver, VotedSlots
<1> QED
  BY <1>1 DEF OnOneFork

(* A tower is on one fork if its votes are s and ancestors of s, its root  *)
(* is an ancestor of s and the votes are above the root.                   *)
LEMMA VotesOnOneFork ==
  ASSUME NEW B \in SUBSET Slot, NEW anc \in [B -> SUBSET B], ChainsOf(B, anc),
         NEW t, TowerOver(t, B), NEW s \in B, t.root \in anc[s],
         \A v \in VotedSlots(t) : v = s \/ v \in anc[s],
         VotesAboveRoot(t)
  PROVE  OnOneFork(t, anc)
<1>1. /\ DOMAIN t.votes = 1..Len(t.votes) /\ Len(t.votes) \in Nat
      /\ \A i, j \in DOMAIN t.votes : i < j => t.votes[i].slot < t.votes[j].slot
      /\ \A i \in DOMAIN t.votes : t.votes[i].slot \in Nat
  BY TowerSlots, Zenon
<1>2. /\ t.root \in Nat /\ t.root # NoSlot /\ s \in Nat
      /\ \A a \in anc[s] : a < s /\ \A c \in anc[s] : a < c => a \in anc[c]
  <2>1. t.root \in Nat /\ s \in Nat
    <3>1. t.root \in B
      OBVIOUS
    <3> QED
      BY <3>1, Zenon DEF Slot
  <2>2. \A a \in anc[s] : a < s /\ \A c \in anc[s] : a < c => a \in anc[c]
    BY DEF ChainsOf
  <2> QED
    BY <2>1, <2>2 DEF NoSlot
<1>3. \A i \in DOMAIN t.votes : t.votes[i].slot = s \/ t.votes[i].slot \in anc[s]
  BY DEF VotedSlots
<1>4. ASSUME NEW i \in DOMAIN t.votes, NEW a \in Nat, a < t.votes[i].slot,
             a = s \/ a \in anc[s]
      PROVE  a \in anc[t.votes[i].slot]
  <2>1. t.votes[i].slot \in Nat /\ t.votes[i].slot <= s
    BY <1>1, <1>2, <1>3
  <2>2. a \in anc[s]
    BY <1>2, <1>4, <2>1
  <2> QED
    BY <1>2, <1>3, <1>4, <2>2, Zenon
<1>5. ASSUME NEW i \in DOMAIN t.votes PROVE t.root \in anc[t.votes[i].slot]
  BY <1>2, <1>4 DEF VotesAboveRoot
<1>6. ASSUME NEW i \in DOMAIN t.votes, NEW j \in 1..(i - 1)
      PROVE  t.votes[j].slot \in anc[t.votes[i].slot]
  <2>1. j \in DOMAIN t.votes /\ j < i
    BY <1>1
  <2> QED
    BY <1>1, <1>3, <1>4, <2>1
<1> QED
  BY <1>2, <1>5, <1>6 DEF OnOneFork

(* What is left above a slot of a tower on one fork is on one fork with a  *)
(* root that the first vote left descends from.                            *)
LEMMA AboveOnOneFork ==
  ASSUME NEW B \in SUBSET Slot, NEW anc \in [B -> SUBSET B], ChainsOf(B, anc),
         NEW t, TowerOver(t, B), OnOneFork(t, anc), NEW r \in B,
         NEW w, w = RetainAbove(t.votes, r),
         w # <<>> => r \in anc[w[1].slot]
  PROVE  OnOneFork([votes |-> w, root |-> r], anc)
<1> DEFINE T == {i \in DOMAIN t.votes : t.votes[i].slot <= r}
           k == LastIndex(T)
<1>1. /\ t.votes \in Seq(Lockout) /\ Len(t.votes) \in Nat
      /\ DOMAIN t.votes = 1..Len(t.votes) /\ WellFormedVotes(t.votes)
      /\ \A i \in DOMAIN t.votes : t.votes[i].slot \in B
  BY TowerSlots, Zenon DEF TowerOver
<1>2. T \in SUBSET (1..Len(t.votes))
  BY <1>1
<1>3. k \in 0..Len(t.votes)
  BY <1>1, <1>2, LastIndexGreatest
<1>4. w = SubSeq(t.votes, k + 1, Len(t.votes))
  BY Zenon DEF RetainAbove
<1> HIDE DEF k
<1>5. /\ w \in Seq(Lockout) /\ Len(w) = Len(t.votes) - k
      /\ \A i \in 1..Len(w) : w[i] = t.votes[k + i]
  BY <1>1, <1>3, <1>4, SuffixWellFormed
<1>6. DOMAIN w = 1..Len(w) /\ Len(w) \in Nat
  BY <1>5
<1> HIDE DEF T
<1>7. ASSUME NEW i \in DOMAIN w
      PROVE  w[i] = t.votes[k + i] /\ k + i \in DOMAIN t.votes /\ i \in Nat
  <2>1. i \in 1..Len(w) /\ Len(w) = Len(t.votes) - k
    BY <1>5, <1>6, <1>7, Zenon
  <2>2. w[i] = t.votes[k + i]
    BY <1>5, <2>1, Zenon
  <2>3. k + i \in 1..Len(t.votes) /\ i \in Nat
    <3>1. Len(t.votes) \in Nat
      BY <1>1, Zenon
    <3> QED
      BY <1>3, <2>1, <3>1
  <2> QED
    BY <1>1, <2>2, <2>3, Zenon
<1> SUFFICES ASSUME w # <<>>
             PROVE  /\ r # NoSlot
                    /\ \A i \in DOMAIN w :
                         /\ r \in anc[w[i].slot]
                         /\ \A j \in 1..(i - 1) : w[j].slot \in anc[w[i].slot]
  BY DEF OnOneFork
<1>8. t.votes # <<>> /\ 1 \in DOMAIN w
  BY <1>1, <1>3, <1>5, <1>6
<1>9. ASSUME NEW i \in DOMAIN w, NEW j \in 1..(i - 1)
      PROVE  w[j].slot \in anc[w[i].slot]
  <2>1. PICK a \in DOMAIN t.votes, c \in DOMAIN t.votes :
             c \in 1..(a - 1) /\ w[i] = t.votes[a] /\ w[j] = t.votes[c]
    <3>1. j \in DOMAIN w /\ j < i
      BY <1>6
    <3>2. k + i \in DOMAIN t.votes /\ k + j \in 1..((k + i) - 1)
      BY <1>3, <1>7, <3>1
    <3> QED
      BY <1>7, <3>1, <3>2
  <2>2. t.votes[c].slot \in anc[t.votes[a].slot]
    BY <1>8, <2>1 DEF OnOneFork
  <2> QED
    BY <2>1, <2>2
<1>10. ASSUME NEW i \in DOMAIN w PROVE r \in anc[w[i].slot]
  <2>1. w[i].slot \in B
    BY <1>1, <1>7
  <2>2. i = 1 \/ w[1].slot \in anc[w[i].slot]
    BY <1>6, <1>9
  <2> QED
    BY <2>1, <2>2 DEF ChainsOf
<1> QED
  BY <1>9, <1>10 DEF Slot, NoSlot

(* A vote that is_locked_out lets through leaves a tower on one fork, even *)
(* when it finds one that is not: what is left of the stack, and the root, *)
(* are ancestors of s; a vote below the root would be an ancestor of it.   *)
LEMMA PushedAboveRoot ==
  ASSUME NEW B \in SUBSET Slot, NEW anc \in [B -> SUBSET B], ChainsOf(B, anc),
         NEW t, TowerOver(t, B), t.root # NoSlot,
         NEW s \in B, NEW C, \A b \in C : s \notin anc[b],
         RootApart(t, C, anc), s > LastVotedSlot(t), t.votes = <<>> => s > t.root,
         NEW w, w = PushVote(t, s), s # w.root => w.root \in anc[s],
         \A v \in VotedSlots(w) : v = s \/ v \in anc[s]
  PROVE  VotesAboveRoot(w) /\ w.root \in anc[s]
<1>1. /\ t \in VoteState /\ WellFormedVotes(t.votes) /\ s \in Slot
      /\ s \in Nat /\ t.root \in Nat /\ t.root \in B
  BY TowerSlots DEF TowerOver, Slot
<1>2. \A i \in 1..Len(t.votes) : t.votes[i].slot \in Nat /\ t.votes[i].slot < s
  BY <1>1, PushVoteStack
<1>3. PICK k \in 0..Len(t.votes), d \in 0..1 : Pushed(t, s, w, k, d)
  BY <1>1, PushVoteStack
<1>4. /\ d <= k /\ w.votes \in Seq(Lockout) /\ DOMAIN w.votes = 1..Len(w.votes)
      /\ Len(w.votes) = k - d + 1 /\ w.votes[k - d + 1].slot = s
      /\ \A i \in 1..(k - d) : w.votes[i].slot = t.votes[d + i].slot
      /\ w.root = IF d = 1 THEN t.votes[1].slot ELSE t.root
  <2>1. /\ d <= k /\ w.votes \in Seq(Lockout) /\ Len(w.votes) = k - d + 1
        /\ w.votes[k - d + 1] = [slot |-> s, conf |-> 1]
        /\ \A i \in 1..(k - d) : w.votes[i].slot = t.votes[d + i].slot
        /\ w.root = IF d = 1 THEN t.votes[1].slot ELSE t.root
    BY <1>3 DEF Pushed
  <2>2. w.votes[k - d + 1].slot = s /\ DOMAIN w.votes = 1..Len(w.votes)
    BY <2>1
  <2> QED
    BY <2>1, <2>2
<1>5. /\ DOMAIN t.votes = 1..Len(t.votes) /\ Len(t.votes) \in Nat
      /\ \A i, j \in DOMAIN t.votes : i < j => t.votes[i].slot < t.votes[j].slot
  BY TowerSlots, Zenon
<1>6. ASSUME NEW i \in DOMAIN w.votes
      PROVE  \/ w.votes[i].slot = s
             \/ d + i \in (d + 1)..Len(t.votes) /\ w.votes[i].slot = t.votes[d + i].slot
  <2>1. CASE i = k - d + 1
    BY <1>4, <2>1
  <2>2. CASE i # k - d + 1
    <3>1. i \in 1..(k - d) /\ d + i \in (d + 1)..Len(t.votes)
      BY <1>4, <1>5, <2>2
    <3> QED
      BY <1>4, <3>1, Zenon
  <2> QED
    BY <2>1, <2>2
<1>7. CASE d = 1
  <2>1. w.root = t.votes[1].slot /\ 1 \in DOMAIN t.votes /\ w.root < s
        /\ w.root \in Nat
    BY <1>2, <1>4, <1>5, <1>7
  <2>2. ASSUME NEW i \in DOMAIN w.votes PROVE w.votes[i].slot > w.root
    <3>1. CASE w.votes[i].slot = s
      BY <1>1, <2>1, <3>1
    <3>2. CASE 1 + i \in 2..Len(t.votes) /\ w.votes[i].slot = t.votes[1 + i].slot
      <4>1. 1 + i \in DOMAIN t.votes /\ 1 < 1 + i
        BY <1>5, <3>2
      <4>2. t.votes[1].slot < t.votes[1 + i].slot /\ t.votes[1 + i].slot \in Nat
        BY <1>2, <1>5, <2>1, <4>1
      <4> QED
        BY <2>1, <3>2, <4>2
    <3> QED
      BY <1>6, <1>7, <3>1, <3>2
  <2> QED
    BY <1>1, <2>1, <2>2 DEF VotesAboveRoot
<1>8. CASE d = 0
  <2>1. w.root = t.root
    BY <1>4, <1>8
  <2>2. s # t.root
    <3>1. CASE HasChild(t.root, C, anc)
      BY <3>1 DEF HasChild
    <3>2. CASE VotesAboveRoot(t)
      <4>1. CASE t.votes = <<>>
        BY <1>1, <4>1
      <4>2. CASE t.votes # <<>>
        <5>1. 1 \in DOMAIN t.votes
          BY <1>5, <4>2
        <5>2. t.votes[1].slot > t.root /\ t.votes[1].slot < s /\ t.votes[1].slot \in Nat
          BY <1>2, <1>5, <3>2, <5>1 DEF VotesAboveRoot
        <5> QED
          BY <1>1, <5>2
      <4> QED
        BY <4>1, <4>2
    <3> QED
      BY <3>1, <3>2 DEF RootApart
  <2>3. t.root \in anc[s] /\ t.root < s
    BY <1>1, <2>1, <2>2 DEF ChainsOf
  <2>4. ASSUME NEW i \in DOMAIN w.votes PROVE w.votes[i].slot > t.root
    <3>1. CASE w.votes[i].slot = s
      BY <1>1, <2>3, <3>1
    <3>2. CASE i \in DOMAIN t.votes /\ w.votes[i].slot = t.votes[i].slot
      <4>1. /\ t.votes[i].slot \in anc[s] /\ t.votes[i].slot # t.root
            /\ t.votes[i].slot \notin anc[t.root] /\ t.votes[i].slot \in Nat
        <5>1. t.votes[i].slot \in VotedSlots(w) /\ t.votes[i].slot < s
              /\ t.votes[i].slot \in Nat
          BY <1>2, <1>5, <3>2 DEF VotedSlots
        <5> QED
          BY <1>1, <3>2, <5>1 DEF RootApart
      <4>2. ~(t.votes[i].slot < t.root)
        BY <2>3, <4>1 DEF ChainsOf
      <4> QED
        BY <1>1, <3>2, <4>1, <4>2
    <3>3. \/ w.votes[i].slot = s
          \/ i \in DOMAIN t.votes /\ w.votes[i].slot = t.votes[i].slot
      <4>1. i \in Nat /\ (0 + i \in (0 + 1)..Len(t.votes) => i \in DOMAIN t.votes)
            /\ 0 + i = i
        BY <1>4, <1>5
      <4> QED
        BY <1>6, <1>8, <4>1
    <3> QED
      BY <3>1, <3>2, <3>3
  <2> QED
    BY <2>1, <2>3, <2>4 DEF VotesAboveRoot
<1> QED
  BY <1>7, <1>8

(* Recording a vote for a block keeps a tower well formed. *)
LEMMA ProcessNextVoteSlotTowerOver ==
  ASSUME NEW B \in SUBSET Slot, NEW t, TowerOver(t, B), NEW s \in B
  PROVE  /\ TowerOver(ProcessNextVoteSlot(t, s), B)
         /\ t.root # NoSlot => ProcessNextVoteSlot(t, s).root # NoSlot
<1>1. CASE s <= LastVotedSlot(t)
  BY <1>1 DEF ProcessNextVoteSlot
<1>2. CASE ~(s <= LastVotedSlot(t))
  <2>1. t \in VoteState /\ WellFormedVotes(t.votes) /\ s \in Slot
    BY DEF TowerOver
  <2>2. s > LastVotedSlot(t)
    BY <1>2, <2>1, LastVoteNewest DEF Slot, NoSlot
  <2>3. LET w == PushVote(t, s) IN
        /\ w \in VoteState /\ WellFormedVotes(w.votes)
        /\ w.root \in VotedSlots(t) \cup {t.root}
        /\ VotedSlots(w) \subseteq VotedSlots(t) \cup {s}
    BY <2>1, <2>2, PushVoteWellFormed
  <2>4. NoSlot \notin B
    BY DEF Slot, NoSlot
  <2> QED
    BY <1>2, <2>3, <2>4 DEF ProcessNextVoteSlot, TowerOver
<1> QED
  BY <1>1, <1>2

(* So does dropping the votes up to a slot and setting a block as root.    *)
LEMMA RetainAboveTowerOver ==
  ASSUME NEW B, NEW t, TowerOver(t, B), NEW s \in Slot \cup {NoSlot},
         NEW r \in B, r \in Slot
  PROVE  TowerOver([votes |-> RetainAbove(t.votes, s), root |-> r], B)
<1> DEFINE w == RetainAbove(t.votes, s)
<1>1. t.votes \in Seq(Lockout)
  BY DEF TowerOver, VoteState
<1>2. /\ w \in Seq(Lockout) /\ WellFormedVotes(w)
      /\ \A i \in DOMAIN w : \E j \in DOMAIN t.votes : w[i] = t.votes[j]
  BY <1>1, RetainAboveWellFormed DEF TowerOver
<1> HIDE DEF w
<1>3. \A i \in DOMAIN w : w[i].slot \in B
  BY <1>2 DEF TowerOver, VotedSlots
<1> QED
  BY <1>2, <1>3 DEF TowerOver, VoteState, VotedSlots, w

(* A tower that loses its oldest votes stays on its fork. *)
LEMMA SuffixInLine ==
  ASSUME NEW B \in SUBSET Slot, NEW anc, NEW t, TowerOver(t, B), OnOneFork(t, anc),
         NEW k \in 0..Len(t.votes),
         NEW w, w = SubSeq(t.votes, k + 1, Len(t.votes)), NEW i \in DOMAIN w
  PROVE  /\ t.root # NoSlot /\ t.root \in anc[w[i].slot]
         /\ \A j \in 1..(i - 1) : w[j].slot \in anc[w[i].slot]
<1>1. /\ t.votes \in Seq(Lockout) /\ WellFormedVotes(t.votes)
      /\ Len(t.votes) \in Nat /\ DOMAIN t.votes = 1..Len(t.votes)
  BY TowerSlots, Zenon DEF TowerOver
<1>2. /\ w \in Seq(Lockout) /\ Len(w) = Len(t.votes) - k
      /\ \A j \in 1..Len(w) : w[j] = t.votes[k + j]
  BY <1>1, SuffixWellFormed, Zenon
<1>3. i \in 1..Len(w) /\ k + i \in DOMAIN t.votes /\ t.votes # <<>>
  BY <1>1, <1>2
<1>4. \A j \in 1..(i - 1) : j \in 1..Len(w) /\ k + j \in 1..((k + i) - 1)
  BY <1>1, <1>2, <1>3
<1>5. /\ t.root # NoSlot /\ t.root \in anc[t.votes[k + i].slot]
      /\ \A j \in 1..((k + i) - 1) : t.votes[j].slot \in anc[t.votes[k + i].slot]
  BY <1>3, Zenon DEF OnOneFork
<1> QED BY <1>2, <1>3, <1>4, <1>5, Zenon

(* What is retained of a well-formed stack is its newest votes. *)
LEMMA RetainedSuffix ==
  ASSUME NEW B \in SUBSET Slot, NEW t, TowerOver(t, B), NEW s
  PROVE  \E k \in 0..Len(t.votes) :
           RetainAbove(t.votes, s) = SubSeq(t.votes, k + 1, Len(t.votes))
<1> DEFINE T == {j \in DOMAIN t.votes : t.votes[j].slot <= s}
           k == LastIndex(T)
<1>1. Len(t.votes) \in Nat /\ DOMAIN t.votes = 1..Len(t.votes)
  BY TowerSlots, Zenon
<1>2. T \in SUBSET (1..Len(t.votes))
  BY <1>1
<1>3. k \in 0..Len(t.votes)
  BY <1>1, <1>2, LastIndexGreatest
<1>4. RetainAbove(t.votes, s) = SubSeq(t.votes, k + 1, Len(t.votes))
  BY Zenon DEF RetainAbove
<1> HIDE DEF k
<1> QED BY <1>3, <1>4

(* The last vote of a tower is one of its votes. *)
LEMMA LastIsVote ==
  ASSUME NEW B \in SUBSET Slot, NEW t, TowerOver(t, B), t.votes # <<>>
  PROVE  /\ LastVotedSlot(t) \in VotedSlots(t)
         /\ Len(t.votes) \in DOMAIN t.votes
         /\ LastVotedSlot(t) = t.votes[Len(t.votes)].slot
<1>1. t.votes \in Seq(Lockout)
  BY Zenon DEF TowerOver, VoteState
<1>2. Len(t.votes) \in DOMAIN t.votes
  BY <1>1
<1> QED BY <1>2, Zenon DEF LastVotedSlot, VotedSlots

-----------------------------------------------------------------------------
(* The newest slot that a tower stands for. *)
Newest(t) == IF LastVotedSlot(t) > t.root THEN LastVotedSlot(t) ELSE t.root

(* The slots that Newest and the lockouts compare are integers. *)
LEMMA NewestType ==
  ASSUME NEW B \in SUBSET Slot, NEW t, TowerOver(t, B)
  PROVE  /\ LastVotedSlot(t) \in Int /\ t.root \in Int /\ Newest(t) \in Int
         /\ Newest(t) >= LastVotedSlot(t) /\ Newest(t) >= t.root
         /\ \A i \in DOMAIN t.votes :
              /\ t.votes[i] \in Lockout /\ t.votes[i].slot \in Int
              /\ t.votes[i].slot <= LastVotedSlot(t)
              /\ LastLockedOutSlot(t.votes[i]) \in Int
              /\ t.votes[i].conf \in Int
<1>1. t \in VoteState /\ WellFormedVotes(t.votes) /\ t.votes \in Seq(Lockout)
  BY DEF TowerOver, VoteState
<1>2. /\ LastVotedSlot(t) \in Slot \cup {NoSlot}
      /\ \A i \in 1..Len(t.votes) : t.votes[i].slot <= LastVotedSlot(t)
  BY <1>1, LastVoteNewest
<1>3. LastVotedSlot(t) \in Int /\ t.root \in Int
  BY <1>1, <1>2 DEF VoteState, Slot, NoSlot
<1>4. Newest(t) \in Int /\ Newest(t) >= LastVotedSlot(t) /\ Newest(t) >= t.root
  BY <1>3 DEF Newest
<1>5. DOMAIN t.votes = 1..Len(t.votes)
      /\ \A i \in 1..Len(t.votes) :
           /\ t.votes[i] \in Lockout /\ t.votes[i].slot \in Nat
           /\ t.votes[i].conf \in 1..MAX_LOCKOUT_HISTORY
           /\ LastLockedOutSlot(t.votes[i]) \in Nat
  BY <1>1, VotesType, Zenon
<1>6. \A i \in DOMAIN t.votes :
        /\ t.votes[i] \in Lockout /\ t.votes[i].slot \in Int
        /\ t.votes[i].slot <= LastVotedSlot(t)
        /\ LastLockedOutSlot(t.votes[i]) \in Int
        /\ t.votes[i].conf \in Int
  BY <1>2, <1>5, LockoutAssumption
<1> QED BY <1>3, <1>4, <1>6, Zenon

(* A tower on one fork stands for its last vote. *)
LEMMA NewestIsLast ==
  ASSUME NEW B \in SUBSET Slot, NEW anc, ChainsOf(B, anc), NEW t, TowerOver(t, B),
         OnOneFork(t, anc), t.votes # <<>>
  PROVE  Newest(t) = LastVotedSlot(t)
<1>1. VotesAboveRoot(t)
  BY OnOneForkAbove, Zenon
<1>2. Len(t.votes) \in DOMAIN t.votes /\ LastVotedSlot(t) = t.votes[Len(t.votes)].slot
  BY LastIsVote, Zenon
<1>3. LastVotedSlot(t) > t.root
  BY <1>1, <1>2, Zenon DEF VotesAboveRoot
<1> QED BY <1>3 DEF Newest

AncestorOrSelf(a, b, anc) == a = b \/ a \in anc[b]

(* The tower t accounts for the vote v: it still has it, with no fewer     *)
(* confirmations, or v is rooted, or v had expired when t voted past it.   *)
Remembered(v, t, anc) ==
  \/ \E i \in DOMAIN t.votes : t.votes[i].slot = v.slot /\ t.votes[i].conf >= v.conf
  \/ t.root # NoSlot /\ AncestorOrSelf(v.slot, t.root, anc)
  \/ /\ Newest(t) > LastLockedOutSlot(v)
     /\ \A i \in DOMAIN t.votes : \/ t.votes[i].slot < v.slot
                                  \/ t.votes[i].slot > LastLockedOutSlot(v)

(* The tower b continues the tower a: it accounts for every vote of a, its *)
(* root is the one of a or a descendant, and the votes it adds are newer   *)
(* than all that a stands for.                                             *)
Continues(a, b, anc) ==
  /\ Newest(a) <= Newest(b)
  /\ a.root = NoSlot \/ (b.root # NoSlot /\ AncestorOrSelf(a.root, b.root, anc))
  /\ \A i \in DOMAIN b.votes : \/ b.votes[i].slot \in VotedSlots(a)
                               \/ b.votes[i].slot > Newest(a)
  /\ \A i \in DOMAIN a.votes : Remembered(a.votes[i], b, anc)

-----------------------------------------------------------------------------
(* Descent is transitive. *)
LEMMA DescentTransitive ==
  ASSUME NEW B, NEW anc, ChainsOf(B, anc), NEW a, NEW b, NEW c \in B,
         AncestorOrSelf(a, b, anc), AncestorOrSelf(b, c, anc)
  PROVE  AncestorOrSelf(a, c, anc)
BY Zenon DEF AncestorOrSelf, ChainsOf

(* A tower continues itself. *)
LEMMA ContinuesReflexive ==
  ASSUME NEW B \in SUBSET Slot, NEW anc, NEW t, TowerOver(t, B)
  PROVE  Continues(t, t, anc)
<1>1. Newest(t) <= Newest(t) /\ \A i \in DOMAIN t.votes : t.votes[i].conf >= t.votes[i].conf
  <2>1. Newest(t) \in Int /\ \A i \in DOMAIN t.votes : t.votes[i].conf \in Int
    BY NewestType, Zenon
  <2> QED BY <2>1
<1>2. \A i \in DOMAIN t.votes : t.votes[i].slot \in VotedSlots(t)
  BY Zenon DEF VotedSlots
<1> QED BY <1>1, <1>2, Zenon DEF Continues, Remembered, AncestorOrSelf

(* Every tower continues the empty one. *)
LEMMA EmptyContinues ==
  ASSUME NEW B \in SUBSET Slot, NEW anc, NEW t, TowerOver(t, B)
  PROVE  Continues(EmptyVoteState, t, anc)
<1>1. /\ Newest(EmptyVoteState) = NoSlot /\ EmptyVoteState.root = NoSlot
      /\ DOMAIN EmptyVoteState.votes = {}
  BY DEF Newest, EmptyVoteState, LastVotedSlot, NoSlot
<1>2. Newest(t) \in Int /\ Newest(t) >= t.root
  BY NewestType, Zenon
<1>3. t.root \in Int /\ t.root >= NoSlot
  BY DEF TowerOver, VoteState, Slot, NoSlot
<1>4. NoSlot <= Newest(t)
  BY <1>2, <1>3 DEF NoSlot
<1>5. \A i \in DOMAIN t.votes : t.votes[i].slot > NoSlot
  <2>1. \A i \in DOMAIN t.votes : t.votes[i].slot \in Nat
    BY TowerSlots, Zenon
  <2> QED BY <2>1 DEF NoSlot
<1> QED BY <1>1, <1>4, <1>5, Zenon DEF Continues

(* What accounts for a vote goes on accounting for it. *)
LEMMA RememberedOn ==
  ASSUME NEW B \in SUBSET Slot, NEW anc, ChainsOf(B, anc),
         NEW b, TowerOver(b, B), NEW c, TowerOver(c, B),
         NEW v \in Lockout, Remembered(v, b, anc), Continues(b, c, anc)
  PROVE  Remembered(v, c, anc)
<1> USE Zenon
<1>1. v.slot \in Int /\ v.conf \in Int /\ LastLockedOutSlot(v) \in Int
  BY LockoutMonotone, LockoutAssumption, SMT DEF Lockout, Slot
<1>2. Newest(b) \in Int /\ Newest(c) \in Int /\ Newest(b) <= Newest(c)
  BY NewestType, SMT DEF Continues
<1>3. ASSUME NEW i \in DOMAIN b.votes, b.votes[i].slot = v.slot, b.votes[i].conf >= v.conf
      PROVE  Remembered(v, c, anc)
  <2> DEFINE u == b.votes[i]
  <2>1. u \in Lockout /\ u.conf \in Int /\ u.slot = v.slot /\ v.conf <= u.conf
    BY <1>1, <1>3, NewestType, SMT
  <2>2. LastLockedOutSlot(u) \in Int /\ LastLockedOutSlot(v) <= LastLockedOutSlot(u)
    BY <2>1, LockoutMonotone, SMT
  <2>3. Remembered(u, c, anc)
    BY DEF Continues
  <2> HIDE DEF u
  <2>4. CASE \E j \in DOMAIN c.votes : c.votes[j].slot = u.slot /\ c.votes[j].conf >= u.conf
    <3>1. PICK j \in DOMAIN c.votes : c.votes[j].slot = u.slot /\ c.votes[j].conf >= u.conf
      BY <2>4, SMT
    <3>2. c.votes[j].conf \in Int
      BY NewestType
    <3>3. c.votes[j].slot = v.slot /\ c.votes[j].conf >= v.conf
      BY <1>1, <2>1, <3>1, <3>2, SMT
    <3> QED BY <3>3 DEF Remembered
  <2>5. CASE c.root # NoSlot /\ AncestorOrSelf(u.slot, c.root, anc)
    BY <2>1, <2>5 DEF Remembered
  <2>6. CASE /\ Newest(c) > LastLockedOutSlot(u)
             /\ \A j \in DOMAIN c.votes : \/ c.votes[j].slot < u.slot
                                          \/ c.votes[j].slot > LastLockedOutSlot(u)
    <3>1. Newest(c) > LastLockedOutSlot(v)
      BY <1>1, <1>2, <2>2, <2>6, SMT
    <3>2. ASSUME NEW j \in DOMAIN c.votes
          PROVE  c.votes[j].slot < v.slot \/ c.votes[j].slot > LastLockedOutSlot(v)
      <4>1. c.votes[j].slot \in Int
        BY NewestType
      <4> QED BY <1>1, <2>1, <2>2, <2>6, <4>1, SMT
    <3> QED BY <3>1, <3>2 DEF Remembered
  <2> QED BY <2>3, <2>4, <2>5, <2>6 DEF Remembered
<1>4. CASE b.root # NoSlot /\ AncestorOrSelf(v.slot, b.root, anc)
  <2>1. c.root # NoSlot /\ AncestorOrSelf(b.root, c.root, anc)
    BY <1>4 DEF Continues
  <2>2. c.root \in B
    BY <2>1 DEF TowerOver
  <2>3. AncestorOrSelf(v.slot, c.root, anc)
    BY <1>4, <2>1, <2>2, DescentTransitive
  <2> QED BY <2>1, <2>3 DEF Remembered
<1>5. CASE /\ Newest(b) > LastLockedOutSlot(v)
           /\ \A i \in DOMAIN b.votes : \/ b.votes[i].slot < v.slot
                                        \/ b.votes[i].slot > LastLockedOutSlot(v)
  <2>1. Newest(c) > LastLockedOutSlot(v)
    BY <1>1, <1>2, <1>5, SMT
  <2>2. ASSUME NEW j \in DOMAIN c.votes
        PROVE  c.votes[j].slot < v.slot \/ c.votes[j].slot > LastLockedOutSlot(v)
    <3>1. CASE c.votes[j].slot \in VotedSlots(b)
      BY <1>5, <3>1 DEF VotedSlots
    <3>2. CASE c.votes[j].slot > Newest(b)
      <4>1. c.votes[j].slot \in Int
        BY NewestType
      <4> QED BY <1>1, <1>2, <1>5, <3>2, <4>1, SMT
    <3> QED BY <3>1, <3>2 DEF Continues
  <2> QED BY <2>1, <2>2 DEF Remembered
<1> QED BY <1>3, <1>4, <1>5 DEF Remembered

(* So towers that continue one another form a line. *)
LEMMA ContinuesTransitive ==
  ASSUME NEW B \in SUBSET Slot, NEW anc, ChainsOf(B, anc),
         NEW a, TowerOver(a, B), NEW b, TowerOver(b, B), NEW c, TowerOver(c, B),
         Continues(a, b, anc), Continues(b, c, anc)
  PROVE  Continues(a, c, anc)
<1> USE Zenon
<1>1. /\ Newest(a) \in Int /\ Newest(b) \in Int /\ Newest(c) \in Int
      /\ Newest(a) <= Newest(b) /\ Newest(b) <= Newest(c)
  BY NewestType, SMT DEF Continues
<1>2. Newest(a) <= Newest(c)
  BY <1>1, SMT
<1>3. a.root = NoSlot \/ (c.root # NoSlot /\ AncestorOrSelf(a.root, c.root, anc))
  <2> SUFFICES ASSUME a.root # NoSlot
               PROVE  c.root # NoSlot /\ AncestorOrSelf(a.root, c.root, anc)
    OBVIOUS
  <2>1. b.root # NoSlot /\ AncestorOrSelf(a.root, b.root, anc)
    BY DEF Continues
  <2>2. c.root # NoSlot /\ AncestorOrSelf(b.root, c.root, anc)
    BY <2>1 DEF Continues
  <2>3. c.root \in B
    BY <2>2 DEF TowerOver
  <2> QED BY <2>1, <2>2, <2>3, DescentTransitive
<1>4. ASSUME NEW i \in DOMAIN c.votes
      PROVE  c.votes[i].slot \in VotedSlots(a) \/ c.votes[i].slot > Newest(a)
  <2>1. CASE c.votes[i].slot \in VotedSlots(b)
    BY <2>1 DEF VotedSlots, Continues
  <2>2. CASE c.votes[i].slot > Newest(b)
    <3>1. c.votes[i].slot \in Int
      BY NewestType
    <3> QED BY <1>1, <2>2, <3>1, SMT
  <2> QED BY <2>1, <2>2 DEF Continues
<1>5. ASSUME NEW i \in DOMAIN a.votes PROVE Remembered(a.votes[i], c, anc)
  <2>1. a.votes[i] \in Lockout
    BY NewestType, SMT
  <2>2. Remembered(a.votes[i], b, anc)
    BY DEF Continues
  <2> QED BY <2>1, <2>2, RememberedOn
<1> QED BY <1>2, <1>3, <1>4, <1>5 DEF Continues

(* New blocks leave that as it is. *)
LEMMA ContinuesAgree ==
  ASSUME NEW B, NEW anc, NEW anc2, \A x \in B : anc2[x] = anc[x],
         NEW a, NEW b, TowerOver(b, B), Continues(a, b, anc)
  PROVE  Continues(a, b, anc2)
<1> USE Zenon
<1>1. b.root # NoSlot => \A x : AncestorOrSelf(x, b.root, anc) => AncestorOrSelf(x, b.root, anc2)
  BY DEF TowerOver, AncestorOrSelf
<1>2. \A v : Remembered(v, b, anc) => Remembered(v, b, anc2)
  BY <1>1 DEF Remembered
<1> QED BY <1>1, <1>2 DEF Continues

(* Recording a vote newer than all that the tower stands for continues it. *)
LEMMA PushContinues ==
  ASSUME NEW B \in SUBSET Slot, NEW anc, NEW t, TowerOver(t, B), t.root # NoSlot,
         NEW s \in B, s > Newest(t), NEW w, w = PushVote(t, s), TowerOver(w, B),
         AncestorOrSelf(t.root, w.root, anc), w.root # NoSlot
  PROVE  Continues(t, w, anc)
<1>1. /\ t \in VoteState /\ WellFormedVotes(t.votes) /\ s \in Slot /\ s \in Nat
      /\ Len(t.votes) \in Nat /\ DOMAIN t.votes = 1..Len(t.votes)
      /\ \A i, j \in DOMAIN t.votes : i < j => t.votes[i].slot < t.votes[j].slot
  BY TowerSlots, Zenon DEF TowerOver, Slot
<1>2. s > LastVotedSlot(t)
  <2>1. Newest(t) \in Int /\ LastVotedSlot(t) \in Int /\ Newest(t) >= LastVotedSlot(t)
    BY NewestType, Zenon
  <2> QED BY <1>1, <2>1
<1>3. PICK k \in 0..Len(t.votes), d \in 0..1 : Pushed(t, s, w, k, d)
  BY <1>1, <1>2, PushVoteStack, Zenon
<1>4. /\ d <= k /\ w.votes \in Seq(Lockout) /\ Len(w.votes) = k - d + 1
      /\ w.votes[k - d + 1] = [slot |-> s, conf |-> 1]
      /\ \A i \in 1..(k - d) : /\ w.votes[i].slot = t.votes[d + i].slot
                               /\ w.votes[i].conf >= t.votes[d + i].conf
      /\ \A i \in (k + 1)..Len(t.votes) : LastLockedOutSlot(t.votes[i]) < s
      /\ w.root = IF d = 1 THEN t.votes[1].slot ELSE t.root
  BY <1>3, Zenon DEF Pushed
<1>5. /\ DOMAIN w.votes = 1..(k - d + 1) /\ w.votes[k - d + 1].slot = s
      /\ k \in Nat /\ d \in Nat
  BY <1>4
<1>6. ASSUME NEW i \in DOMAIN w.votes
      PROVE  \/ w.votes[i].slot = s
             \/ i \in 1..(k - d) /\ d + i \in DOMAIN t.votes /\ d + i <= k
                /\ w.votes[i].slot = t.votes[d + i].slot
  <2>1. CASE i = k - d + 1
    BY <1>5, <2>1
  <2>2. CASE i # k - d + 1
    <3>1. i \in 1..(k - d) /\ d + i \in 1..Len(t.votes) /\ d + i <= k
      BY <1>1, <1>5, <2>2
    <3> QED BY <1>1, <1>4, <3>1, Zenon
  <2> QED BY <2>1, <2>2
<1>7. LastVotedSlot(w) = s
  BY <1>1, <1>2, PushVoteWellFormed, Zenon
<1>8. Newest(w) \in Int /\ Newest(w) >= s /\ Newest(t) \in Int /\ Newest(t) <= Newest(w)
  <2>1. Newest(w) \in Int /\ Newest(w) >= s /\ Newest(t) \in Int
    BY <1>7, NewestType, Zenon
  <2> QED BY <1>1, <2>1
<1>9. ASSUME NEW i \in DOMAIN w.votes
      PROVE  w.votes[i].slot \in VotedSlots(t) \/ w.votes[i].slot > Newest(t)
  BY <1>6, Zenon DEF VotedSlots
<1>10. ASSUME NEW i \in DOMAIN t.votes PROVE Remembered(t.votes[i], w, anc)
  <2>1. /\ i \in Nat /\ t.votes[i].slot \in Int
        /\ LastLockedOutSlot(t.votes[i]) \in Int
    <3>1. t.votes[i].slot \in Int /\ LastLockedOutSlot(t.votes[i]) \in Int
      BY NewestType, Zenon
    <3> QED BY <1>1, <3>1
  <2>2. CASE i > k
    <3>1. LastLockedOutSlot(t.votes[i]) < s
      <4>1. i \in (k + 1)..Len(t.votes)
        BY <1>1, <1>5, <2>1, <2>2
      <4> QED BY <1>4, <4>1, Zenon
    <3>2. Newest(w) > LastLockedOutSlot(t.votes[i])
      BY <1>1, <1>8, <2>1, <3>1
    <3>3. ASSUME NEW j \in DOMAIN w.votes
          PROVE  \/ w.votes[j].slot < t.votes[i].slot
                 \/ w.votes[j].slot > LastLockedOutSlot(t.votes[i])
      <4>1. CASE w.votes[j].slot = s
        BY <1>1, <2>1, <3>1, <4>1
      <4>2. CASE j \in 1..(k - d) /\ d + j \in DOMAIN t.votes /\ d + j <= k
                 /\ w.votes[j].slot = t.votes[d + j].slot
        <5>1. d + j < i
          BY <1>5, <2>1, <2>2, <4>2
        <5> QED BY <1>1, <4>2, <5>1, Zenon
      <4> QED BY <1>6, <4>1, <4>2, Zenon
    <3> QED BY <3>2, <3>3, Zenon DEF Remembered
  <2>3. CASE i <= k /\ i > d
    <3>1. PICK j \in 1..(k - d) : d + j = i
      <4>1. i - d \in 1..(k - d) /\ d + (i - d) = i
        BY <1>5, <2>1, <2>3
      <4> QED BY <4>1, Zenon
    <3>2. j \in DOMAIN w.votes
      BY <1>5
    <3>3. w.votes[j].slot = t.votes[i].slot /\ w.votes[j].conf >= t.votes[i].conf
      BY <1>4, <3>1, Zenon
    <3> QED BY <3>2, <3>3, Zenon DEF Remembered
  <2>4. CASE i <= d
    <3>1. i = 1 /\ d = 1
      BY <1>1, <1>5, <2>4
    <3>2. t.votes[i].slot = w.root
      BY <1>4, <3>1
    <3> QED BY <3>2, Zenon DEF Remembered, AncestorOrSelf
  <2> QED BY <1>5, <2>1, <2>2, <2>3, <2>4
<1> QED BY <1>8, <1>9, <1>10, Zenon DEF Continues

(* So does dropping from a tower on one fork its oldest votes for a root   *)
(* that the last of them is rooted by, where what is left still stands for *)
(* as much.                                                                *)
LEMMA SuffixContinues ==
  ASSUME NEW B \in SUBSET Slot, NEW anc, ChainsOf(B, anc),
         NEW t, TowerOver(t, B), OnOneFork(t, anc), t.votes # <<>>,
         NEW w, TowerOver(w, B), w.root \in B, AncestorOrSelf(t.root, w.root, anc),
         NEW k \in 0..Len(t.votes),
         w.votes = SubSeq(t.votes, k + 1, Len(t.votes)),
         k > 0 => AncestorOrSelf(t.votes[k].slot, w.root, anc)
  PROVE  /\ Continues(t, w, anc)
         /\ w.votes # <<>> => LastVotedSlot(w) = LastVotedSlot(t)
<1> DEFINE r == w.root
<1>1. /\ t.votes \in Seq(Lockout) /\ Len(t.votes) \in Nat
      /\ DOMAIN t.votes = 1..Len(t.votes) /\ WellFormedVotes(t.votes)
      /\ \A i \in DOMAIN t.votes : t.votes[i].slot \in B
  BY TowerSlots, Zenon DEF TowerOver
<1>2. /\ w.root = r /\ w.votes \in Seq(Lockout) /\ Len(w.votes) = Len(t.votes) - k
      /\ \A i \in 1..Len(w.votes) : w.votes[i] = t.votes[k + i]
  <2>1. w.root = r /\ w.votes = SubSeq(t.votes, k + 1, Len(t.votes))
    OBVIOUS
  <2> QED BY <1>1, <2>1, SuffixWellFormed, Zenon
<1>3. DOMAIN w.votes = 1..(Len(t.votes) - k) /\ k \in Nat
  BY <1>1, <1>2
<1>4. w.votes # <<>> => LastVotedSlot(w) = LastVotedSlot(t)
  <2> SUFFICES ASSUME w.votes # <<>> PROVE LastVotedSlot(w) = LastVotedSlot(t)
    OBVIOUS
  <2>1. Len(w.votes) \in 1..Len(w.votes) /\ k + Len(w.votes) = Len(t.votes)
    BY <1>1, <1>2, <1>3
  <2>2. w.votes[Len(w.votes)] = t.votes[Len(t.votes)]
    BY <1>2, <2>1, Zenon
  <2> QED BY <2>2, Zenon DEF LastVotedSlot
<1>5. /\ LastVotedSlot(t) \in Int /\ t.root \in Int /\ r \in Int /\ r # NoSlot
      /\ Newest(w) \in Int /\ Newest(w) >= r /\ Newest(w) >= LastVotedSlot(w)
  BY <1>2, NewestType DEF NoSlot, Slot
<1>6. Newest(t) = LastVotedSlot(t)
  <2>1. VotesAboveRoot(t)
    BY OnOneForkAbove
  <2>2. Len(t.votes) \in DOMAIN t.votes /\ LastVotedSlot(t) = t.votes[Len(t.votes)].slot
    BY <1>1 DEF LastVotedSlot
  <2>3. LastVotedSlot(t) > t.root
    BY <2>1, <2>2, Zenon DEF VotesAboveRoot
  <2> QED BY <2>3 DEF Newest
<1>7. ASSUME NEW i \in DOMAIN t.votes, i <= k
      PROVE  AncestorOrSelf(t.votes[i].slot, r, anc)
  <2>1. k \in DOMAIN t.votes /\ k > 0 /\ (i = k \/ i \in 1..(k - 1))
    BY <1>1, <1>3, <1>7
  <2>2. AncestorOrSelf(t.votes[i].slot, t.votes[k].slot, anc)
    BY <2>1, Zenon DEF OnOneFork, AncestorOrSelf
  <2> QED BY <2>1, <2>2, DescentTransitive, Zenon
<1>8. Newest(t) <= Newest(w)
  <2>1. CASE w.votes # <<>>
    BY <1>4, <1>5, <1>6, <2>1
  <2>2. CASE w.votes = <<>>
    <3>1. k = Len(t.votes) /\ k \in DOMAIN t.votes /\ k <= k
          /\ LastVotedSlot(t) = t.votes[k].slot
      <4>1. Len(w.votes) = 0 /\ Len(t.votes) # 0
        <5>1. Len(w.votes) = 0
          BY <2>2
        <5>2. Len(t.votes) # 0
          BY <1>1
        <5> QED BY <5>1, <5>2
      <4>2. k = Len(t.votes) /\ k \in DOMAIN t.votes /\ k <= k
        BY <1>1, <1>2, <1>3, <4>1
      <4> QED BY <4>2, Zenon DEF LastVotedSlot
    <3>2. AncestorOrSelf(t.votes[k].slot, r, anc)
      BY <1>7, <3>1
    <3>3. LastVotedSlot(t) <= r
      BY <1>5, <3>1, <3>2 DEF AncestorOrSelf, ChainsOf
    <3> QED BY <1>5, <1>6, <3>3
  <2> QED BY <2>1, <2>2
<1>9. ASSUME NEW i \in DOMAIN w.votes PROVE w.votes[i].slot \in VotedSlots(t)
  <2>1. k + i \in DOMAIN t.votes /\ w.votes[i] = t.votes[k + i]
    BY <1>1, <1>2, <1>3
  <2> QED BY <2>1, Zenon DEF VotedSlots
<1>10. ASSUME NEW i \in DOMAIN t.votes PROVE Remembered(t.votes[i], w, anc)
  <2>1. CASE i <= k
    BY <1>2, <1>5, <1>7, <2>1, Zenon DEF Remembered
  <2>2. CASE ~(i <= k)
    <3>1. PICK j \in DOMAIN w.votes : w.votes[j] = t.votes[i]
      <4>1. i - k \in DOMAIN w.votes /\ k + (i - k) = i /\ i - k \in 1..Len(w.votes)
        BY <1>1, <1>2, <1>3, <2>2
      <4> QED BY <1>2, <4>1, Zenon
    <3>2. t.votes[i].conf >= t.votes[i].conf
      <4>1. t.votes[i].conf \in Int
        BY NewestType, Zenon
      <4> QED BY <4>1
    <3> QED BY <3>1, <3>2, Zenon DEF Remembered
  <2> QED BY <2>1, <2>2
<1> QED BY <1>2, <1>4, <1>5, <1>8, <1>9, <1>10, Zenon DEF Continues
=============================================================================
