------------------------------- MODULE Tower -------------------------------
(***************************************************************************)
(* One validator's tower through replay, voting, crash and restart:        *)
(*   - core/src/replay_stage.rs replays banks, adopts the on-chain tower,  *)
(*     votes and sets roots;                                               *)
(*   - core/src/voting_service.rs, a thread of its own, stores the tower   *)
(*     and then sends the vote;                                            *)
(*   - core/src/validator.rs and core/src/consensus.rs restore the tower   *)
(*     after a restart.                                                    *)
(* The other validators are the environment: it chooses the blocks, which  *)
(* sent votes land in them, the outcome of every stake threshold and the   *)
(* root the cluster's supermajority imposes at a restart.                  *)
(***************************************************************************)
EXTENDS VoteProgram

CONSTANTS
  BlockTree,         \* the pairs <<block, parent>> leaders may produce
  MaxCrashes,        \* bound on the crashes of the validator
  MaxQueue,          \* bound on the votes waiting for the voting service
  HISTORY,           \* MAX_ENTRIES, the number of slots in the SlotHistory
  TowerFileMayBeLost,      \* the tower file may be missing at a restart
  BlockstoreMayLag,        \* a crash may lose the newest blockstore roots
  VoteTxMayFail            \* generate_vote_tx may return Failed

ASSUME TowerAssumption ==
  /\ BlockTree \subseteq {e \in Nat \X Nat : e[2] < e[1]}
  /\ MaxCrashes \in Nat /\ MaxQueue \in Nat /\ HISTORY \in Nat \ {0}
  /\ {TowerFileMayBeLost, BlockstoreMayLag, VoteTxMayFail} \subseteq BOOLEAN

VARIABLES
  ancestors,  \* ancestors[s]: the strict ancestors of block s
  onChain,    \* onChain[s]: our vote account in bank s
  banks,      \* the frozen banks in BankForks
  bankRoot,   \* BankForks::root()
  computed,   \* the banks whose fork stats have been computed
  tower,      \* Tower::vote_state
  lastVote,   \* Tower::last_vote, empty for TowerSync::default()
  voteQueue,  \* the channel from ReplayStage to VotingService
  stored,     \* VotingService has stored the tower of the head of voteQueue
  saved,      \* the tower file; its root is NoSlot when there is no file
  sent,       \* the votes that have reached the network
  bsRoot,     \* Blockstore::max_root()
  up,         \* the validator is running
  crashes,    \* how often it crashed
  fileLost    \* history: a crash has lost the tower file

vars == <<ancestors, onChain, banks, bankRoot, computed, tower, lastVote,
          voteQueue, stored, saved, sent, bsRoot, up, crashes, fileLost>>

disk == <<saved, bsRoot, fileLost>>
chain == <<ancestors, onChain>>

Blocks == DOMAIN ancestors

IsAncestorOrSelf(a, b) == a = b \/ a \in ancestors[b]

-----------------------------------------------------------------------------
(* Tower::is_recent and Tower::is_locked_out. *)
IsRecent(t, s) == IF t.votes # <<>> THEN s > LastVotedSlot(t) ELSE s > t.root

(* Mutant: only the order of the slots is checked, not their forks. *)
IsLockedOutByAgeOnly(t, s) == ~IsRecent(t, s)

IsLockedOut(t, s) ==
  \/ ~IsRecent(t, s)
  \/ \E v \in VotedSlots(ProcessNextVoteSlot(t, s)) :
       v # s /\ v \notin ancestors[s]

(* The assertion at the end of is_locked_out. *)
RootIsAncestor(t, s) ==
  LET root == ProcessNextVoteSlot(t, s).root
  IN  s # root => root \in ancestors[s]

(* SlotHistory::check for the history of the root bank r extended with the *)
(* slots of `extra' (external: solana-slot-history).                       *)
Check(r, extra, s) ==
  LET newest == CHOOSE n \in extra \cup {r} : \A x \in extra \cup {r} : x <= n
  IN  IF s > newest THEN "Future"
      ELSE IF s < newest + 1 - HISTORY THEN "TooOld"
      ELSE IF IsAncestorOrSelf(s, r) \/ s \in extra THEN "Found"
      ELSE "NotFound"

(* Index 0 of a tower is its root, index i its i-th vote. *)
SlotInTower(t, i) == IF i = 0 THEN t.root ELSE t.votes[i].slot

(* adjust_lockouts_after_replay checks a tower from the future of the      *)
(* replayed root r against a history that pretends to have the tower root. *)
Warped(t, r) == IF t.root <= r THEN {} ELSE {t.root}

CheckTower(t, r, i) == Check(r, Warped(t, r), SlotInTower(t, i))

(* Tower::adjust_lockouts_with_slot_history walks the tower from newest to *)
(* oldest.  It fails when no slot is found, when an older slot than a      *)
(* found one is not found, or when the verdicts are out of order.  The     *)
(* tower is for a last vote not too old for the history.                   *)
AdjustFails(t, r) ==
  LET idx  == 0..Len(t.votes)
      c(i) == CheckTower(t, r, i)
  IN  \/ t.root <= r /\ c(Len(t.votes)) = "TooOld"
      \/ \A i \in idx : c(i) # "Found"
      \/ \E i, j \in idx : /\ i < j
                           /\ \/ c(j) = "Found" /\ c(i) = "NotFound"
                              \/ c(j) # "Future" /\ c(i) = "Future"
                              \/ c(j) = "TooOld" /\ c(i) # "TooOld"

(* The newest slot found anchors the tower: only the votes above it are    *)
(* retained.  The replayed root replaces an older tower root.              *)
AdjustLockoutsAfterReplay(t, r) ==
  LET anchor == LastIndex({i \in DOMAIN t.votes :
                             CheckTower(t, r, i) = "Found"})
  IN  [votes |-> SubSeq(t.votes, anchor + 1, Len(t.votes)),
       root  |-> IF t.root <= r THEN r ELSE t.root]

(* Tower::initialize_lockouts_from_bank with the vote account of a bank.   *)
InitializeLockoutsFromBank(account, r) ==
  [votes |-> RetainAbove(account.votes, r), root |-> r]
-----------------------------------------------------------------------------
(* Tower::new_from_bankforks at genesis, before any block but slot 0. *)
Init ==
  /\ ancestors = [s \in {0} |-> {}]
  /\ onChain = [s \in {0} |-> EmptyVoteState]
  /\ banks = {0} /\ bankRoot = 0 /\ computed = {}
  /\ tower = [votes |-> <<>>, root |-> 0]
  /\ lastVote = EmptyVoteState
  /\ voteQueue = <<>> /\ stored = FALSE
  /\ saved = EmptyVoteState /\ sent = {} /\ bsRoot = 0
  /\ up = TRUE /\ crashes = 0 /\ fileLost = FALSE

(* A new block s on top of bank p is replayed and frozen.  The block       *)
(* carries the vote transaction t, or none (an empty vote is rejected).    *)
ReplayBank(s, p, t) ==
  /\ up
  /\ <<s, p>> \in BlockTree /\ p \in banks /\ s \notin Blocks
  /\ LET anc == ancestors[p] \cup {p} IN
       /\ ancestors' = [x \in Blocks \cup {s} |->
                          IF x = s THEN anc ELSE ancestors[x]]
       /\ onChain' = [x \in Blocks \cup {s} |->
                        IF x = s THEN ProcessTowerSync(onChain[p], t, anc)
                        ELSE onChain[x]]
  /\ banks' = banks \cup {s}
  /\ UNCHANGED <<bankRoot, computed, tower, lastVote, voteQueue, stored, sent,
                 disk, up, crashes>>

(* What adopt_on_chain_tower_if_behind makes of the tower at bank b. *)
Behind(b) == LastVotedSlot(onChain[b]) > LastVotedSlot(tower)

(* Mutant: the local root is lost. *)
AdoptedTowerRollsBack(b) == onChain[b]

AdoptedTower(b) ==
  IF tower.root > onChain[b].root
  THEN [votes |-> RetainAbove(onChain[b].votes, tower.root),
        root  |-> tower.root]
  ELSE onChain[b]

(* Its assertions: the first vote kept above the local root descends from  *)
(* that root, and the last vote, or the root without one, has its bank.    *)
AdoptionPanics(b) ==
  LET t == AdoptedTower(b) IN
  /\ Behind(b)
  /\ \/ /\ tower.root > onChain[b].root /\ t.votes # <<>>
        /\ tower.root \notin ancestors[t.votes[1].slot]
     \/ (IF t.votes # <<>> THEN LastVotedSlot(t) ELSE t.root) \notin banks

(* compute_bank_stats handles the frozen banks in slot order and skips the *)
(* ones it has computed.                                                   *)
Computable(b) ==
  up /\ b \in banks \ computed /\ \A x \in banks \ computed : b <= x

ComputeBankStats(b) ==
  /\ Computable(b) /\ ~AdoptionPanics(b)
  /\ computed' = computed \cup {b}
  /\ tower' = IF Behind(b) THEN AdoptedTower(b) ELSE tower
  /\ lastVote' = IF Behind(b) THEN AdoptedTower(b) ELSE lastVote
  /\ UNCHANGED <<chain, banks, bankRoot, voteQueue, stored, sent, disk, up,
                 crashes>>

(* The bank s is selected for voting.  Which tip fork choice prefers, and  *)
(* whether the vote and switch thresholds and the propagation check pass,  *)
(* is the environment's; what the tower itself decides is that s is not    *)
(* locked out.                                                             *)
Votable(s) ==
  /\ up /\ banks = computed
  /\ s \in banks /\ \A b \in banks : s \notin ancestors[b]
  /\ ~IsLockedOut(tower, s)

(* The assertion of is_locked_out and the expect of handle_votable_bank:   *)
(* the root the vote leads to is an ancestor of the bank, and a new root   *)
(* is still in BankForks.                                                  *)
VotingPanics(s) ==
  \/ ~RootIsAncestor(tower, s)
  \/ ProcessNextVoteSlot(tower, s).root \notin banks \cup {tower.root}

(* handle_votable_bank: record the vote; on a new root set the blockstore  *)
(* roots and prune BankForks (handle_new_root); then push the vote to the  *)
(* voting service unless generate_vote_tx yields none.                     *)
HandleVotableBank(s, tx) ==
  LET t == ProcessNextVoteSlot(tower, s) IN
  /\ Votable(s) /\ ~VotingPanics(s) /\ Len(voteQueue) < MaxQueue
  /\ tower' = t /\ lastVote' = t
  /\ IF t.root = tower.root
     THEN UNCHANGED <<bsRoot, bankRoot, banks, computed>>
     ELSE /\ bsRoot' = t.root /\ bankRoot' = t.root
          /\ banks' = {b \in banks : IsAncestorOrSelf(t.root, b)}
          /\ computed' = computed \cap banks'
  /\ voteQueue' = IF tx THEN Append(voteQueue, [op |-> "PushVote", vote |-> t])
                  ELSE voteQueue
  /\ UNCHANGED <<chain, stored, saved, sent, up, crashes, fileLost>>

(* maybe_refresh_last_vote: bank b is built on the last vote, some vote of *)
(* ours but not the last one has landed on its fork.                       *)
RefreshLastVote(b) ==
  /\ up /\ banks = computed
  /\ b \in banks
  /\ LET last == LastVotedSlot(lastVote) IN
       /\ last \in banks /\ last \in ancestors[b]
       /\ LastVotedSlot(onChain[b]) # NoSlot
       /\ LastVotedSlot(onChain[b]) < last
  /\ Len(voteQueue) < MaxQueue
  /\ voteQueue' = Append(voteQueue, [op |-> "RefreshVote", vote |-> lastVote])
  /\ UNCHANGED <<chain, banks, bankRoot, computed, tower, lastVote, stored,
                 sent, disk, up, crashes>>

(* VotingService::handle_vote, first part: a pushed vote's tower is stored *)
(* before anything is sent.                                                *)
StoreTower ==
  /\ up /\ voteQueue # <<>> /\ ~stored
  /\ Head(voteQueue).op = "PushVote"
  /\ saved' = Head(voteQueue).vote
  /\ stored' = TRUE
  /\ UNCHANGED <<chain, banks, bankRoot, computed, tower, lastVote, voteQueue,
                 sent, bsRoot, up, crashes, fileLost>>

(* Mutant: the vote is sent before its tower is stored. *)
SendVoteUnstored ==
  /\ up /\ voteQueue # <<>>
  /\ sent' = sent \cup {Head(voteQueue).vote}
  /\ voteQueue' = Tail(voteQueue)
  /\ stored' = FALSE
  /\ UNCHANGED <<chain, banks, bankRoot, computed, tower, lastVote, disk, up,
                 crashes>>

(* Second part: send the vote to the leaders and to gossip. *)
SendVote ==
  /\ up /\ voteQueue # <<>>
  /\ stored \/ Head(voteQueue).op = "RefreshVote"
  /\ sent' = sent \cup {Head(voteQueue).vote}
  /\ voteQueue' = Tail(voteQueue)
  /\ stored' = FALSE
  /\ UNCHANGED <<chain, banks, bankRoot, computed, tower, lastVote, disk, up,
                 crashes>>

(* The process dies: everything but the disk and the network is lost.      *)
Crash ==
  /\ up /\ crashes < MaxCrashes
  /\ up' = FALSE /\ crashes' = crashes + 1
  /\ voteQueue' = <<>> /\ stored' = FALSE
  /\ bsRoot' \in {bsRoot} \cup IF BlockstoreMayLag THEN ancestors[bsRoot] ELSE {}
  /\ saved' \in {saved} \cup IF TowerFileMayBeLost THEN {EmptyVoteState} ELSE {}
  /\ fileLost' = (fileLost \/ saved' # saved)
  /\ UNCHANGED <<chain, banks, bankRoot, computed, tower, lastVote, sent>>

(* reconcile_blockstore_roots: the blockstore, rooted at r, catches up     *)
(* with the root of the restored tower.  The mutant skips that.            *)
NoReconciliation(r) == r

ReconcileBlockstoreRoots(r) == IF saved.root > r THEN saved.root ELSE r

(* process_blockstore_from_root: r is the blockstore's root, or a newer    *)
(* block the supermajority has rooted according to the votes in one of its *)
(* descendants, which is then marked as a root.                            *)
(* Then the tower is restored, the blockstore roots are reconciled with    *)
(* its root, and the tower is adjusted or, when it is missing or does not  *)
(* fit, rebuilt from the vote account of the heaviest bank h.  The cluster *)
(* never roots a block in conflict with the root of our own tower.         *)
Restart(r, h) ==
  LET forks == {b \in Blocks : IsAncestorOrSelf(r, b)}
      restored == saved.root # NoSlot /\ ~AdjustFails(saved, r)
  IN
  /\ ~up
  /\ r \in Blocks /\ IsAncestorOrSelf(bsRoot, r) /\ h \in forks
  /\ r = bsRoot \/ \E b \in Blocks : r \in ancestors[b]
  /\ restored => h = r                     \* h is not read then
  /\ saved.root > r => r \in ancestors[saved.root]
  /\ saved.root \in 0..(r - 1) => saved.root \in ancestors[r]
  /\ up' = TRUE
  /\ banks' = forks /\ bankRoot' = r /\ computed' = {}
  /\ bsRoot' = ReconcileBlockstoreRoots(r)
  /\ tower' = IF restored THEN AdjustLockoutsAfterReplay(saved, r)
              ELSE InitializeLockoutsFromBank(onChain[h], r)
  /\ lastVote' = IF restored /\ tower'.votes # <<>> THEN saved
                 ELSE EmptyVoteState
  /\ UNCHANGED <<chain, voteQueue, stored, saved, sent, crashes, fileLost>>

Next ==
  \/ \E e \in BlockTree, t \in sent \cup {EmptyVoteState} :
       ReplayBank(e[1], e[2], t)
  \/ \E b \in banks : ComputeBankStats(b)
  \/ \E s \in banks, tx \in {TRUE, ~VoteTxMayFail} : HandleVotableBank(s, tx)
  \/ \E b \in banks : RefreshLastVote(b)
  \/ StoreTower
  \/ SendVote
  \/ Crash
  \/ \E r, h \in Blocks : Restart(r, h)

Spec == Init /\ [][Next]_vars

-----------------------------------------------------------------------------
VoteOp == [op : {"PushVote", "RefreshVote"}, vote : VoteState]

(* Every bank has its ancestors and our vote account, every vote in the    *)
(* tower, the queue, the file or the network is a vote state, and the      *)
(* tower always has a root.                                                *)
TypeOK ==
  /\ Blocks \subseteq Slot
  /\ ancestors \in [Blocks -> SUBSET Blocks]
  /\ onChain \in [Blocks -> VoteState]
  /\ computed \subseteq banks /\ banks \subseteq Blocks
  /\ bankRoot \in banks /\ bsRoot \in Blocks
  /\ {tower, lastVote, saved} \subseteq VoteState /\ tower.root # NoSlot
  /\ sent \subseteq VoteState
  /\ voteQueue \in Seq(VoteOp) /\ stored \in BOOLEAN
  /\ up \in BOOLEAN /\ crashes \in 0..MaxCrashes /\ fileLost \in BOOLEAN

(* Every tower, in memory, queued, on disk, on the wire or on chain, is    *)
(* well formed: recording, adopting and restoring a tower never produce a  *)
(* stack the vote program's structural checks would refuse.                *)
TowersWellFormed ==
  /\ \A t \in {tower, lastVote, saved} \cup sent : WellFormedVotes(t.votes)
  /\ \A i \in DOMAIN voteQueue : WellFormedVotes(voteQueue[i].vote.votes)
  /\ \A b \in Blocks : WellFormedVotes(onChain[b].votes)

(* The votes of a tower on the wire and its root lie on one fork, in       *)
(* order: is_locked_out lets no vote through with another fork below it,   *)
(* whatever a restart left in the tower.                                   *)
SentOnOneFork ==
  \A t \in sent :
    /\ VotesAboveRoot(t)
    /\ \A i \in DOMAIN t.votes :
         /\ t.root \in ancestors[t.votes[i].slot]
         /\ \A j \in 1..(i - 1) : t.votes[j].slot \in ancestors[t.votes[i].slot]

(* Lockouts promised on the wire are honoured by every later vote on the   *)
(* wire, across crashes: a later vote inside the lockout of an earlier     *)
(* one is for a descendant of it.  This is what storing the tower before   *)
(* sending the vote (VotingService::handle_vote) is for, and it needs the  *)
(* file: without it the lockouts are those of the vote account.            *)
LockoutsHonoured ==
  ~fileLost => \A t1, t2 \in sent : \A i \in DOMAIN t1.votes :
    LET v == t1.votes[i]  s == LastVotedSlot(t2) IN
    LastVotedSlot(t1) < s /\ IsLockedOutAtSlot(v, s) => v.slot \in ancestors[s]

(* A vote on the wire that is newer than the vote account of a bank on its *)
(* fork is accepted there, whichever of the votes before it were lost: the *)
(* vote program never answers an honest validator with LockoutConflict,    *)
(* ConfirmationRollBack, RootRollBack or a structural error, unless the    *)
(* validator lost its tower file.                                          *)
SentVotesAccepted ==
  ~fileLost => \A b \in Blocks, t \in sent :
    LET last == LastVotedSlot(t)  anc == ancestors[b] \cup {b} IN
    last \in anc /\ last > LastVotedSlot(onChain[b]) =>
      /\ CheckProposed(onChain[b], t, anc) = OkResult
      /\ ~ProcessNewVoteStateError(onChain[b], t.votes, t.root)

(* The assertion of is_locked_out and the expect of handle_votable_bank    *)
(* hold for every bank that may be voted on, whatever was adopted from the *)
(* chain, restored from disk or rebuilt before.  So do those of            *)
(* adopt_on_chain_tower_if_behind: the first adopted vote descends from    *)
(* the local root and the last one is a bank in BankForks.  Excepted are   *)
(* the forks that BankForks would have purged had it reached the tower's   *)
(* root: after a restart from a blockstore that lost its newest roots, or  *)
(* the adoption of an account with a newer root, it has not, and there     *)
(* is_locked_out does meet the case it calls impossible.                   *)
NeverPanics ==
  \A s \in banks : (tower.root > bankRoot => IsAncestorOrSelf(tower.root, s)) =>
    /\ Votable(s) => ~VotingPanics(s)
    /\ Computable(s) => ~AdoptionPanics(s)

(* Every root on the wire is rooted in the blockstore, across crashes: the *)
(* roots are set before the vote is pushed, and a restart catches up with  *)
(* the tower (reconcile_blockstore_roots) when the crash lost them but not *)
(* the tower file.                                                         *)
SentRootsAreRooted ==
  up /\ ~fileLost => \A t \in sent : IsAncestorOrSelf(t.root, bsRoot)
=============================================================================
