---------------------------- MODULE WorkerProofs ----------------------------
(* What holds of those that work for a turn: what a batch of experts keeps,   *)
(* for any number of experts, files, scopes, threads and edits, and whose     *)
(* reply a call of an MCP session returns, for any number of calls and        *)
(* retries (ReplyInv).                                                        *)
EXTENDS ExpertBatch, McpSession, TLAPS

Iso == minted # first /\ autonomous /\ Members \cap writers # {}

Placed == first \in 1..(minted + 1)

Typed == TypeOK /\ Placed

\* What an expert left behind that was not asked for yet: nothing.
FreshInv == \A c \in Child : c > minted =>
    /\ changed[c] = {} /\ c \notin made /\ c \notin landed
    /\ \A f \in File : c \notin shared[f] /\ c \notin head[f]
    /\ \A d \in Child, f \in File : c \notin tree[d][f]

\* How far the batch is, and who has a candidate.
StageInv ==
    /\ pc \in {"create", "gate", "land"} => Iso
    /\ pc = "create" => \A c \in Members : status[c] = "waiting" /\ changed[c] = {}
    /\ pc \in {"run", "gate", "land"} /\ Iso => Members \cap writers \subseteq made
    /\ \A c \in Members \cap made : c \in writers /\ Iso
    /\ pc \in {"gate", "land"} => AllEnded
    /\ pc # "run" => Busy = {}
    /\ item # 0 => pc = "land"
    /\ pc \in {"create", "run", "gate"} => Members \cap landed = {}
    /\ \A c \in Child : changed[c] # {} => c \in writers

\* An expert's own edits are where its tools put them.
OwnInv ==
    /\ \A c \in made : \A f \in changed[c] : c \in tree[c][f]
    /\ pc = "run" => \A c \in Members \ made : \A f \in changed[c] : c \in shared[f]

\* Before it lands, nothing of a candidate is in the workspace.
ApartInv == pc \in {"create", "run", "gate"} /\ Iso =>
    \A c \in Members, f \in File : pc = "create" \/ c \in made => c \notin shared[f]

\* A candidate of the batch has what its promotion is to be measured by.
Kept(c, F) ==
    /\ c \in worktree => \A f \in File : head[f] \subseteq tree[c][f]
    /\ c \notin worktree => \A f \in F : shared[f] \subseteq tree[c][f]

BaseInv == ~disturbed /\ pc \in {"create", "run", "gate"} =>
    \A c \in Members \cap made : Kept(c, File)

\* The promotion: what is copied is in the workspace, and what is to come
\* takes nothing out of it.
LandInv == pc = "land" =>
    /\ Disjoint(Items, changed)
    /\ \A c \in Items \cap landed : \A f \in changed[c] : c \in shared[f]
    /\ item # 0 =>
         /\ item \in Items \ landed
         /\ todo \subseteq changed[item]
         /\ \A f \in changed[item] \ todo : item \in shared[f]
    /\ ~disturbed =>
         /\ \A c \in Items \ landed : c # item => Kept(c, changed[c])
         /\ item # 0 => \A f \in todo : shared[f] \subseteq tree[item][f]

IInv ==
    /\ Typed
    /\ FreshInv
    /\ StageInv
    /\ OwnInv
    /\ ApartInv
    /\ BaseInv
    /\ LandInv
    /\ ReturnedAllOrNone

-----------------------------------------------------------------------------
(* Types *)

Files == [File -> SUBSET Author]

LEMMA WithTyped ==
  ASSUME NEW t \in Files, NEW f \in File, NEW a \in Author
  PROVE  /\ With(t, f, a) \in Files
         /\ \A g \in File : With(t, f, a)[g] = IF g = f THEN t[g] \cup {a} ELSE t[g]
  BY DEF With, Files

LEMMA CountedTyped == ASSUME edits \in 0..MaxEdits, Counted PROVE edits' \in 0..MaxEdits
  BY ExpertAssumption DEF Counted

LEMMA EditTyped ==
  ASSUME shared \in Files, tree \in [Child -> Files], edits \in 0..MaxEdits,
         NEW c \in Child, NEW f \in File, Edit(c, f)
  PROVE  shared' \in Files /\ tree' \in [Child -> Files] /\ edits' \in 0..MaxEdits
<1>1. c \in Author /\ tree[c] \in Files
  BY DEF Author
<1>2. With(shared, f, c) \in Files /\ With(tree[c], f, c) \in Files
  BY <1>1, WithTyped
<1>3. \/ shared' = With(shared, f, c) /\ tree' = tree
      \/ tree' = [tree EXCEPT ![c] = With(tree[c], f, c)] /\ shared' = shared
  BY DEF Edit
<1>4. edits' \in 0..MaxEdits
  BY CountedTyped DEF Edit
<1> QED
  BY <1>2, <1>3, <1>4

\* The types of the three groups of variables that few steps touch together.
RepoOK == head \in Files /\ shared \in Files /\ tree \in [Child -> Files]

BatchOK ==
    /\ autonomous \in BOOLEAN
    /\ pc \in {"lead", "create", "run", "gate", "land"}
    /\ minted \in 0..MaxChildren
    /\ writers \subseteq Child
    /\ scope \in [Child -> Scopes]
    /\ status \in [Child -> {"none", "waiting", "running"} \cup Ended]
    /\ raised \in {"no", "expert", "not ready", "io"}
    /\ disturbed \in BOOLEAN
    /\ edits \in 0..MaxEdits
    /\ first \in 1..(minted + 1)

WorkOK ==
    /\ worktree \subseteq made
    /\ made \subseteq Child
    /\ changed \in [Child -> SUBSET File]
    /\ gone \in [Child -> SUBSET File]
    /\ item \in Child \cup {0}
    /\ todo \subseteq File
    /\ landed \subseteq Child
    /\ credited \subseteq Child \X File

LEMMA TypedParts == Typed <=> RepoOK /\ BatchOK /\ WorkOK
<1>1. 1..(minted + 1) \subseteq Nat \/ minted \notin Nat
  OBVIOUS
<1>2. minted \in 0..MaxChildren => minted \in Nat
  BY ExpertAssumption
<1> QED
  BY <1>1, <1>2 DEF Typed, TypeOK, Placed, RepoOK, BatchOK, WorkOK, Files

LEMMA TypedPartsNext == Typed' <=> RepoOK' /\ BatchOK' /\ WorkOK'
<1>1. 1..(minted' + 1) \subseteq Nat \/ minted' \notin Nat
  OBVIOUS
<1>2. minted' \in 0..MaxChildren => minted' \in Nat
  BY ExpertAssumption
<1> QED
  BY <1>1, <1>2 DEF Typed, TypeOK, Placed, RepoOK, BatchOK, WorkOK, Files

LEMMA CreditTyped ==
  ASSUME credited \subseteq Child \X File, NEW S, S \subseteq Child, Credit(S)
  PROVE  credited' \subseteq Child \X File
  BY DEF Credit

LEMMA MembersAre ==
  ASSUME BatchOK PROVE Members \subseteq Child /\ \A c \in Members : c <= minted
<1>1. minted \in 0..MaxChildren /\ MaxChildren \in Nat /\ first \in 1..(minted + 1)
  BY ExpertAssumption DEF BatchOK
<1> QED
  BY <1>1 DEF Members, Child

LEMMA MembersNext == ASSUME BatchOK' PROVE Members' \subseteq Child
<1>1. /\ minted' \in 0..MaxChildren /\ MaxChildren \in Nat /\ first' \in 1..(minted' + 1)
  BY ExpertAssumption DEF BatchOK
<1> QED
  BY <1>1 DEF Members, Child

LEMMA TypedInit == Init => Typed
<1> SUFFICES ASSUME Init PROVE RepoOK /\ BatchOK /\ WorkOK
  BY TypedParts
<1>1. RepoOK
  BY DEF Init, RepoOK, Files
<1>2. BatchOK
  <2>1. 0 \in 0..MaxChildren /\ 0 \in 0..MaxEdits /\ {} \in Scopes
    BY ExpertAssumption
  <2>2. first \in 1..(minted + 1)
    BY DEF Init
  <2> QED
    BY <2>1, <2>2 DEF Init, BatchOK
<1>3. WorkOK
  BY DEF Init, WorkOK
<1> QED
  BY <1>1, <1>2, <1>3

LEMMA RepoNext == Typed /\ [Next]_vars => RepoOK'
<1> SUFFICES ASSUME Typed, [Next]_vars PROVE RepoOK'
  OBVIOUS
<1>0. RepoOK /\ BatchOK /\ WorkOK
  BY TypedParts
<1>1. head \in Files /\ shared \in Files /\ tree \in [Child -> Files] /\ edits \in 0..MaxEdits
  BY <1>0 DEF RepoOK, BatchOK
<1>2. CASE UNCHANGED <<head, shared, tree>>
  BY <1>1, <1>2 DEF RepoOK
<1>3. ASSUME NEW f \in File, LeadWrites(f) PROVE RepoOK'
  <2>1. shared' = With(shared, f, Lead) /\ head' = head /\ tree' = tree /\ Lead \in Author
    BY <1>3 DEF LeadWrites, cand, Author
  <2> QED
    BY <1>1, <2>1, WithTyped DEF RepoOK
<1>4. ASSUME NEW c \in Child, Create(c) PROVE RepoOK'
  <2>1. head' = head /\ shared' = shared
    BY <1>4 DEF Create, repo
  <2>2. tree' = [tree EXCEPT ![c] = head] \/ tree' = [tree EXCEPT ![c] = shared]
    BY <1>4 DEF Create
  <2> QED
    BY <1>1, <2>1, <2>2 DEF RepoOK
<1>5. ASSUME NEW c \in Child, NEW f \in File, Writes(c, f) \/ Deletes(c, f) \/ Runs(c, f)
      PROVE  RepoOK'
  <2>1. Edit(c, f) /\ head' = head
    BY <1>5 DEF Writes, Deletes, Runs
  <2> QED
    BY <1>1, <2>1, EditTyped DEF RepoOK
<1>6. ASSUME NEW f \in File, Copy(f) PROVE RepoOK'
  <2>1. shared' = [shared EXCEPT ![f] = tree[item][f]] /\ head' = head /\ tree' = tree
    BY <1>6 DEF Copy, Copied, cand
  <2>2. item \in Child
    BY <1>0, <1>6 DEF Copy, WorkOK
  <2>3. tree[item][f] \in SUBSET Author
    BY <1>1, <2>2 DEF Files
  <2> QED
    BY <1>1, <2>1, <2>3 DEF RepoOK, Files
<1>7. CASE Outside
  <2>1. tree' = tree /\ User \in Author
    BY <1>7 DEF Outside, cand, Author
  <2>2. \/ head' = shared /\ shared' = shared
        \/ \E f \in File : shared' = With(shared, f, User) /\ head' = head
    BY <1>7 DEF Outside
  <2> QED
    BY <1>1, <2>1, <2>2, WithTyped DEF RepoOK
<1>8. ASSUME NEW c \in Child, Start(c) \/ End(c) \/ Promote(c) PROVE RepoOK'
  BY <1>2, <1>8 DEF Start, End, Promote, repo, cand
<1>9. CASE Delegate \/ CreateRaises \/ Join \/ Gate \/ CopyRaises \/ Landed
  BY <1>2, <1>9 DEF Delegate, CreateRaises, Join, Gate, CopyRaises, Landed, repo, cand
<1>10. CASE UNCHANGED vars
  BY <1>2, <1>10 DEF vars
<1> QED
  BY <1>3, <1>4, <1>5, <1>6, <1>7, <1>8, <1>9, <1>10 DEF Next

LEMMA BatchNext == Typed /\ [Next]_vars => BatchOK'
<1> SUFFICES ASSUME Typed, [Next]_vars PROVE BatchOK'
  OBVIOUS
<1>0. BatchOK /\ RepoOK /\ WorkOK
  BY TypedParts
<1> DEFINE Same == UNCHANGED <<autonomous, minted, writers, scope, first>>
<1>1. ASSUME Same, pc' \in {"lead", "create", "run", "gate", "land"},
             status' \in [Child -> {"none", "waiting", "running"} \cup Ended],
             raised' \in {"no", "expert", "not ready", "io"},
             disturbed' \in BOOLEAN, edits' \in 0..MaxEdits
      PROVE  BatchOK'
  BY <1>0, <1>1 DEF BatchOK
<1>2. /\ pc \in {"lead", "create", "run", "gate", "land"}
      /\ status \in [Child -> {"none", "waiting", "running"} \cup Ended]
      /\ raised \in {"no", "expert", "not ready", "io"}
      /\ disturbed \in BOOLEAN /\ edits \in 0..MaxEdits
  BY <1>0 DEF BatchOK
<1>3. CASE Delegate
  <2>0. PICK n \in 1..MaxCalls : \E W \in SUBSET (minted + 1..minted + n),
              s \in [minted + 1..minted + n -> Scopes] : Mint(n, W, s)
    BY <1>3 DEF Delegate
  <2>1. PICK W \in SUBSET (minted + 1..minted + n), s \in [minted + 1..minted + n -> Scopes] :
              Mint(n, W, s)
    BY <2>0
  <2>2. MaxCalls \in Nat /\ MaxChildren \in Nat /\ minted \in Nat
    <3>1. MaxCalls \in Nat /\ MaxChildren \in Nat
      BY ExpertAssumption
    <3> QED
      <4>1. minted \in 0..MaxChildren
        BY <1>0 DEF BatchOK
      <4> QED
        BY <3>1, <4>1
  <2>3. /\ n \in Nat /\ n >= 1 /\ minted + n <= MaxChildren
    BY <2>1, <2>2 DEF Mint
  <2>4. minted' \in 0..MaxChildren /\ first' \in 1..(minted' + 1)
    BY <2>1, <2>2, <2>3 DEF Mint
  <2>5. minted + 1..minted + n \subseteq Child
    BY <2>2, <2>3 DEF Child
  <2>6. writers' \subseteq Child
    BY <1>0, <2>1, <2>5 DEF BatchOK, Mint
  <2>7. scope' \in [Child -> Scopes]
    BY <1>0, <2>1 DEF BatchOK, Mint
  <2>8. status' \in [Child -> {"none", "waiting", "running"} \cup Ended]
    BY <1>2, <2>1 DEF Mint
  <2>9. /\ pc' \in {"create", "run"} /\ raised' = "no" /\ disturbed' = FALSE
        /\ UNCHANGED <<autonomous, edits>>
    BY <1>3 DEF Delegate
  <2> QED
    BY <1>0, <2>4, <2>6, <2>7, <2>8, <2>9 DEF BatchOK
<1>4. ASSUME NEW f \in File, LeadWrites(f) PROVE BatchOK'
  BY <1>1, <1>2, <1>4, CountedTyped DEF LeadWrites, minting
<1>5. ASSUME NEW c \in Child, Create(c) PROVE BatchOK'
  BY <1>1, <1>2, <1>5 DEF Create, minting
<1>6. ASSUME NEW c \in Child, Start(c) \/ End(c) PROVE BatchOK'
  <2>1. status' \in [Child -> {"none", "waiting", "running"} \cup Ended]
    BY <1>2, <1>6 DEF Start, End
  <2>2. UNCHANGED <<minting, pc, raised, disturbed, edits>>
    BY <1>6 DEF Start, End
  <2> QED
    BY <1>1, <1>2, <2>1, <2>2 DEF minting
<1>7. ASSUME NEW c \in Child, NEW f \in File, Writes(c, f) \/ Deletes(c, f) \/ Runs(c, f)
      PROVE  BatchOK'
  <2>1. Edit(c, f) /\ UNCHANGED <<minting, pc, status, raised>>
    BY <1>7 DEF Writes, Deletes, Runs
  <2>2. edits' \in 0..MaxEdits
    BY <1>2, <2>1, CountedTyped DEF Edit
  <2>3. disturbed' \in BOOLEAN
    BY <1>2, <1>7 DEF Writes, Deletes, Runs
  <2> QED
    BY <1>1, <1>2, <2>1, <2>2, <2>3 DEF minting
<1>8. ASSUME NEW c \in Child, Promote(c) PROVE BatchOK'
  BY <1>1, <1>2, <1>8 DEF Promote, Raise, minting
<1>9. ASSUME NEW f \in File, Copy(f) PROVE BatchOK'
  BY <1>1, <1>2, <1>9 DEF Copy, minting
<1>10. CASE CreateRaises \/ Join \/ Gate \/ CopyRaises \/ Landed
  <2>1. UNCHANGED <<minting, status, disturbed, edits>>
    BY <1>10 DEF CreateRaises, Join, Gate, CopyRaises, Landed
  <2>2. pc' \in {"lead", "gate", "land"} /\ raised' \in {raised, "expert", "io"}
    BY <1>10 DEF CreateRaises, Join, Gate, CopyRaises, Landed, Raise, Return
  <2> QED
    BY <1>1, <1>2, <2>1, <2>2 DEF minting
<1>11. CASE Outside
  <2>1. disturbed' \in BOOLEAN
    BY <1>2, <1>11 DEF Outside
  <2> QED
    BY <1>1, <1>2, <1>11, <2>1, CountedTyped DEF Outside, minting
<1>12. CASE UNCHANGED vars
  BY <1>1, <1>2, <1>12 DEF vars
<1> QED
  BY <1>3, <1>4, <1>5, <1>6, <1>7, <1>8, <1>9, <1>10, <1>11, <1>12 DEF Next

LEMMA WorkNext == Typed /\ [Next]_vars => WorkOK'
<1> SUFFICES ASSUME Typed, [Next]_vars PROVE WorkOK'
  OBVIOUS
<1>0. BatchOK /\ RepoOK /\ WorkOK
  BY TypedParts
<1>1. Members \subseteq Child /\ Items \subseteq Child
  BY <1>0, MembersAre DEF Items
<1>2. CASE UNCHANGED <<cand, work, landing, credited>>
  BY <1>0, <1>2 DEF WorkOK, cand, work, landing
<1>3. ASSUME NEW c \in Child, Create(c) PROVE WorkOK'
  <2>1. /\ made' = made \cup {c} /\ worktree' \in {worktree, worktree \cup {c}}
        /\ UNCHANGED <<work, landing, credited>>
    BY <1>3 DEF Create
  <2> QED
    BY <1>0, <2>1 DEF WorkOK, work, landing
<1>4. ASSUME NEW c \in Child, NEW f \in File, Writes(c, f) \/ Deletes(c, f) \/ Runs(c, f)
      PROVE  WorkOK'
  <2>1. /\ changed' \in {changed, [changed EXCEPT ![c] = changed[c] \cup {f}]}
        /\ gone' \in {[gone EXCEPT ![c] = gone[c] \ {f}], [gone EXCEPT ![c] = gone[c] \cup {f}]}
        /\ UNCHANGED <<worktree, made, landing, credited>>
    BY <1>4 DEF Writes, Deletes, Runs
  <2> QED
    BY <1>0, <2>1 DEF WorkOK, landing
<1>5. ASSUME NEW c \in Child, Promote(c) PROVE WorkOK'
  BY <1>0, <1>5 DEF Promote, Raise, WorkOK, cand, work
<1>6. ASSUME NEW f \in File, Copy(f) PROVE WorkOK'
  BY <1>0, <1>6 DEF Copy, WorkOK, cand, work
<1>7. CASE CreateRaises \/ CopyRaises
  BY <1>0, <1>7 DEF CreateRaises, CopyRaises, Raise, WorkOK, cand, work
<1>8. CASE Join \/ Gate \/ Landed
  <2>1. UNCHANGED <<cand, work>>
    BY <1>8 DEF Join, Gate, Landed
  <2>2. UNCHANGED landing \/ (item' = 0 /\ todo' = {} /\ landed' = landed)
    BY <1>8 DEF Join, Gate, Landed, Raise, Return, landing
  <2>3. credited' = credited \/ \E S \in SUBSET Child : Credit(S)
    BY <1>1, <1>8 DEF Join, Gate, Landed, Raise, Return
  <2>4. credited' \subseteq Child \X File
    BY <1>0, <2>3, CreditTyped DEF WorkOK
  <2> QED
    BY <1>0, <2>1, <2>2, <2>4 DEF WorkOK, cand, work, landing
<1>9. ASSUME NEW f \in File, LeadWrites(f) PROVE WorkOK'
  BY <1>2, <1>9 DEF LeadWrites
<1>10. CASE Delegate \/ Outside
  BY <1>2, <1>10 DEF Delegate, Outside
<1>11. ASSUME NEW c \in Child, Start(c) \/ End(c) PROVE WorkOK'
  BY <1>2, <1>11 DEF Start, End
<1>12. CASE UNCHANGED vars
  BY <1>2, <1>12 DEF vars, cand, work, landing
<1> QED
  BY <1>3, <1>4, <1>5, <1>6, <1>7, <1>8, <1>9, <1>10, <1>11, <1>12 DEF Next

LEMMA TypedNext == Typed /\ [Next]_vars => Typed'
  BY RepoNext, BatchNext, WorkNext, TypedPartsNext

-----------------------------------------------------------------------------
(* What the steps do *)

LEMMA KindIs == Kind = "isolated" <=> Iso
  BY DEF Kind, Iso

LEMMA KindIsNext == Kind' = "isolated" <=> Iso'
  BY DEF Kind, Iso

\* What an edit of c does to the contents of files: the others keep theirs.
LEMMA Edited ==
  ASSUME RepoOK, NEW c \in Child, NEW f \in File, Edit(c, f)
  PROVE  /\ \A d \in Child, g \in File :
              tree'[d][g] = IF d = c /\ g = f /\ c \in made THEN tree[d][g] \cup {c}
                            ELSE tree[d][g]
         /\ \A g \in File :
              shared'[g] = IF g = f /\ c \notin made THEN shared[g] \cup {c} ELSE shared[g]
<1>1. shared \in Files /\ tree \in [Child -> Files] /\ tree[c] \in Files /\ c \in Author
  BY DEF RepoOK, Author
<1>2. /\ \A g \in File : With(shared, f, c)[g] = IF g = f THEN shared[g] \cup {c} ELSE shared[g]
      /\ \A g \in File : With(tree[c], f, c)[g] = IF g = f THEN tree[c][g] \cup {c} ELSE tree[c][g]
  <2>1. \A g \in File : With(shared, f, c)[g] = IF g = f THEN shared[g] \cup {c} ELSE shared[g]
    BY <1>1, WithTyped
  <2>2. PICK t \in Files : t = tree[c]
    BY <1>1
  <2>3. \A g \in File : With(t, f, c)[g] = IF g = f THEN t[g] \cup {c} ELSE t[g]
    BY <1>1, WithTyped
  <2> QED
    BY <2>1, <2>2, <2>3
<1>3. CASE c \in made
  <2>1. tree' = [tree EXCEPT ![c] = With(tree[c], f, c)] /\ shared' = shared
    BY <1>3 DEF Edit, Isolated
  <2> QED
    BY <1>1, <1>2, <1>3, <2>1
<1>4. CASE c \notin made
  <2>1. shared' = With(shared, f, c) /\ tree' = tree
    BY <1>4 DEF Edit, Isolated
  <2> QED
    BY <1>1, <1>2, <1>4, <2>1
<1> QED
  BY <1>3, <1>4

\* The lead or somebody else edits a file.
LEMMA Outer ==
  ASSUME RepoOK, NEW f \in File, NEW a \in {Lead, User}, shared' = With(shared, f, a)
  PROVE  /\ \A g \in File : shared[g] \subseteq shared'[g]
         /\ \A c \in Child, g \in File : c \in shared'[g] <=> c \in shared[g]
<1>1. a \in Author /\ a \notin Child /\ shared \in Files
  BY ExpertAssumption DEF Author, RepoOK
<1>2. \A g \in File : shared'[g] = IF g = f THEN shared[g] \cup {a} ELSE shared[g]
  <2>1. \A g \in File : With(shared, f, a)[g] = IF g = f THEN shared[g] \cup {a} ELSE shared[g]
    BY <1>1, WithTyped
  <2> QED
    BY <2>1
<1> QED
  BY <1>1, <1>2

\* A copy of a file of the item.
LEMMA Copies ==
  ASSUME Typed, NEW f \in File, Copy(f)
  PROVE  /\ item \in Child /\ f \in todo
         /\ \A g \in File : shared'[g] = IF g = f THEN tree[item][f] ELSE shared[g]
<1>1. item \in Child /\ shared \in Files
  BY TypedParts DEF Copy, RepoOK, WorkOK
<1>2. shared' = [shared EXCEPT ![f] = tree[item][f]] /\ f \in todo
  BY DEF Copy, Copied
<1> QED
  BY <1>1, <1>2 DEF Files

\* The candidate of c is made of HEAD or of the workspace.
LEMMA Created ==
  ASSUME Typed, NEW c \in Child, Create(c)
  PROVE  /\ pc = "create" /\ c \in Members \cap writers /\ c \notin made /\ c \notin worktree
         /\ made' = made \cup {c}
         /\ \A d \in Child : d # c => tree'[d] = tree[d] /\ (d \in worktree' <=> d \in worktree)
         /\ \/ tree'[c] = head /\ c \in worktree'
            \/ tree'[c] = shared /\ c \notin worktree'
<1>1. tree \in [Child -> Files] /\ worktree \subseteq made
  BY TypedParts DEF RepoOK, WorkOK
<1>2. /\ pc = "create" /\ c \in Members \cap writers /\ c \notin made
      /\ made' = made \cup {c}
  BY DEF Create, Uncreated
<1>3. \/ tree' = [tree EXCEPT ![c] = head] /\ worktree' = worktree \cup {c}
      \/ tree' = [tree EXCEPT ![c] = shared] /\ worktree' = worktree
  BY DEF Create
<1> QED
  BY <1>1, <1>2, <1>3

-----------------------------------------------------------------------------
(* The parts of the invariant *)

LEMMA FreshNext == Typed /\ FreshInv /\ StageInv /\ LandInv /\ [Next]_vars => FreshInv'
<1> SUFFICES ASSUME Typed, FreshInv, StageInv, LandInv, [Next]_vars,
                    NEW x \in Child, x > minted'
             PROVE  /\ changed'[x] = {} /\ x \notin made' /\ x \notin landed'
                    /\ \A f \in File : x \notin shared'[f] /\ x \notin head'[f]
                    /\ \A d \in Child, f \in File : x \notin tree'[d][f]
  BY DEF FreshInv
<1> DEFINE Goal == /\ changed'[x] = {} /\ x \notin made' /\ x \notin landed'
                   /\ \A f \in File : x \notin shared'[f] /\ x \notin head'[f]
                   /\ \A d \in Child, f \in File : x \notin tree'[d][f]
<1>0. RepoOK /\ BatchOK /\ WorkOK /\ Members \subseteq Child /\ \A c \in Members : c <= minted
  BY TypedParts, MembersAre
<1>1. x \in Nat /\ minted \in Nat
  <2>1. MaxChildren \in Nat
    BY ExpertAssumption
  <2> QED
    <3>1. minted \in 0..MaxChildren /\ x \in 1..MaxChildren
      BY <1>0 DEF BatchOK, Child
    <3> QED
      BY <2>1, <3>1
<1>2. x > minted
  <2>1. minted' = minted \/ \E n \in 1..MaxCalls : minted' = minted + n
    <3>1. CASE Delegate
      BY <3>1 DEF Delegate, Mint
    <3>2. CASE ~Delegate
      BY <3>2 DEF Next, LeadWrites, Create, CreateRaises, Start, Writes, Deletes, Runs, End,
         Join, Gate, Promote, Copy, CopyRaises, Landed, Outside, minting, vars
    <3> QED
      BY <3>1, <3>2
  <2>2. MaxCalls \in Nat
    BY ExpertAssumption
  <2> QED
    BY <1>1, <2>1, <2>2
<1>3. /\ changed[x] = {} /\ x \notin made /\ x \notin landed /\ x \notin Members
      /\ \A f \in File : x \notin shared[f] /\ x \notin head[f]
      /\ \A d \in Child, f \in File : x \notin tree[d][f]
  BY <1>0, <1>1, <1>2 DEF FreshInv
<1>4. CASE UNCHANGED <<repo, cand, changed, landed>>
  BY <1>3, <1>4 DEF repo, cand
<1>5. ASSUME NEW f \in File, LeadWrites(f) PROVE Goal
  <2>1. /\ shared' = With(shared, f, Lead) /\ UNCHANGED <<head, cand, work, landing>>
    BY <1>5 DEF LeadWrites
  <2> QED
    BY <1>0, <1>3, <2>1, Outer DEF cand, work, landing
<1>6. ASSUME NEW c \in Child, Create(c) PROVE Goal
  <2>1. UNCHANGED <<repo, work, landing>> /\ c # x
    BY <1>3, <1>6 DEF Create, Uncreated
  <2>2. \A d \in Child : tree'[d] \in {tree[d], head, shared}
    BY <1>6, Created
  <2>3. made' = made \cup {c}
    BY <1>6 DEF Create
  <2> QED
    BY <1>3, <2>1, <2>2, <2>3 DEF repo, work, landing
<1>7. ASSUME NEW c \in Child, NEW f \in File, Writes(c, f) \/ Deletes(c, f) \/ Runs(c, f)
      PROVE  Goal
  <2>1. /\ Edit(c, f) /\ UNCHANGED <<head, made, landing>> /\ c # x
        /\ changed' = changed \/ changed' = [changed EXCEPT ![c] = changed[c] \cup {f}]
    BY <1>3, <1>7 DEF Writes, Deletes, Runs, Busy
  <2>2. changed'[x] = {}
    BY <1>0, <1>3, <2>1 DEF WorkOK
  <2>3. /\ \A d \in Child, g \in File : x \notin tree'[d][g]
        /\ \A g \in File : x \notin shared'[g]
    <3>1. \A d \in Child, g \in File : tree'[d][g] \in {tree[d][g], tree[d][g] \cup {c}}
      <4>1. RepoOK /\ Edit(c, f)
        BY <1>0, <2>1
      <4>2. \A d \in Child, g \in File :
              tree'[d][g] = IF d = c /\ g = f /\ c \in made THEN tree[d][g] \cup {c}
                            ELSE tree[d][g]
        BY <4>1, Edited, Zenon
      <4> QED
        BY <4>2
    <3>2. \A g \in File : shared'[g] \in {shared[g], shared[g] \cup {c}}
      BY <1>0, <2>1, Edited
    <3> QED
      BY <1>3, <2>1, <3>1, <3>2
  <2> QED
    BY <1>3, <2>1, <2>2, <2>3 DEF landing
<1>8. ASSUME NEW f \in File, Copy(f) PROVE Goal
  <2>1. UNCHANGED <<head, cand, work>> /\ landed' \in {landed, landed \cup {item}}
    BY <1>8 DEF Copy
  <2>2. item # x
    BY <1>3, <1>8 DEF Copy, StageInv, LandInv, Items
  <2> QED
    BY <1>3, <1>8, <2>1, <2>2, Copies DEF cand, work
<1>9. CASE Outside
  <2>1. UNCHANGED <<cand, work, landing>>
    BY <1>9 DEF Outside
  <2>2. \/ head' = shared /\ shared' = shared
        \/ \E f \in File : shared' = With(shared, f, User) /\ head' = head
    BY <1>9 DEF Outside
  <2> QED
    BY <1>0, <1>3, <2>1, <2>2, Outer DEF cand, work, landing
<1>10. ASSUME NEW c \in Child, Start(c) \/ End(c) \/ Promote(c) PROVE Goal
  BY <1>4, <1>10 DEF Start, End, Promote, Raise, work, landing
<1>11. CASE Delegate \/ CreateRaises \/ Join \/ Gate \/ CopyRaises \/ Landed
  BY <1>4, <1>11 DEF Delegate, CreateRaises, Join, Gate, CopyRaises, Landed, Raise, Return,
     work, landing
<1>12. CASE UNCHANGED vars
  BY <1>4, <1>12 DEF vars, repo, cand
<1> QED
  BY <1>5, <1>6, <1>7, <1>8, <1>9, <1>10, <1>11, <1>12 DEF Next
\* The experts of a new batch: they wait, and left nothing behind.
LEMMA Asked ==
  ASSUME Typed, FreshInv, Delegate
  PROVE  /\ pc' = (IF Iso' THEN "create" ELSE "run") /\ raised' = "no"
         /\ UNCHANGED <<repo, cand, work, landing, credited>>
         /\ pc = "lead" /\ writers \subseteq writers'
         /\ Members' \subseteq Child
         /\ \A c \in Members' :
              /\ status'[c] = "waiting" /\ changed[c] = {} /\ c \notin made /\ c \notin landed
              /\ \A f \in File : c \notin shared[f]
<1>0. BatchOK /\ BatchOK'
  <2>1. [Next]_vars
    BY DEF Next
  <2> QED
    BY <2>1, TypedParts, BatchNext
<1>1. PICK n \in 1..MaxCalls : \E W \in SUBSET (minted + 1..minted + n),
              s \in [minted + 1..minted + n -> Scopes] : Mint(n, W, s)
  BY DEF Delegate
<1>2. /\ first' = minted + 1 /\ minted' = minted + n
      /\ status' = [c \in Child |-> IF c \in minted + 1..minted + n THEN "waiting"
                                    ELSE status[c]]
      /\ writers \subseteq writers'
  BY <1>1 DEF Mint
<1>3. Members' \subseteq Child /\ Members' = minted + 1..minted + n
  <2>1. Members' \subseteq Child
    BY <1>0, MembersNext
  <2>2. Members' = first'..minted'
    BY DEF Members
  <2> QED
    BY <1>2, <2>1, <2>2
<1>4. minted \in Nat /\ n \in Nat
  <2>1. MaxChildren \in Nat /\ MaxCalls \in Nat
    BY ExpertAssumption
  <2>2. minted \in 0..MaxChildren
    BY <1>0 DEF BatchOK
  <2> QED
    BY <2>1, <2>2
<1>5. ASSUME NEW c \in Members'
      PROVE  /\ status'[c] = "waiting" /\ changed[c] = {} /\ c \notin made /\ c \notin landed
             /\ \A f \in File : c \notin shared[f]
  <2>1. c \in Child /\ c \in minted + 1..minted + n
    BY <1>3
  <2>2. c > minted
    BY <1>4, <2>1
  <2> QED
    BY <1>2, <2>1, <2>2 DEF FreshInv
<1>6. pc' = (IF Iso' THEN "create" ELSE "run")
  BY KindIsNext DEF Delegate
<1>7. /\ raised' = "no" /\ UNCHANGED <<repo, cand, work, landing, credited>> /\ pc = "lead"
  BY DEF Delegate
<1> QED
  BY <1>2, <1>3, <1>5, <1>6, <1>7

\* The other steps leave the batch as it is.
LEMMA Going ==
  ASSUME [Next]_vars, ~Delegate
  PROVE  UNCHANGED minting /\ Members' = Members /\ (Iso' <=> Iso)
<1>1. UNCHANGED minting
  BY DEF Next, LeadWrites, Create, CreateRaises, Start, Writes, Deletes, Runs, End,
     Join, Gate, Promote, Copy, CopyRaises, Landed, Outside, minting, vars
<1> QED
  BY <1>1 DEF minting, Members, Iso

LEMMA StageNext == Typed /\ FreshInv /\ StageInv /\ LandInv /\ [Next]_vars => StageInv'
<1> SUFFICES ASSUME Typed, FreshInv, StageInv, LandInv, [Next]_vars PROVE StageInv'
  OBVIOUS
<1>0. RepoOK /\ BatchOK /\ WorkOK /\ Members \subseteq Child
  BY TypedParts, MembersAre
<1>1. CASE Delegate
  <2>1. /\ pc' = (IF Iso' THEN "create" ELSE "run") /\ UNCHANGED <<cand, work, landing>>
        /\ pc = "lead" /\ writers \subseteq writers' /\ Members' \subseteq Child
        /\ \A c \in Members' :
             status'[c] = "waiting" /\ changed[c] = {} /\ c \notin made /\ c \notin landed
    BY <1>1, Asked
  <2>2. made' = made /\ changed' = changed /\ landed' = landed /\ item' = item
    BY <2>1 DEF cand, work, landing
  <2>3. Busy' = {}
    BY <2>1 DEF Busy
  <2>4. \A c \in Child : changed[c] # {} => c \in writers
    BY DEF StageInv
  <2>5. item = 0
    BY <2>1 DEF StageInv
  <2> QED
    BY <2>1, <2>2, <2>3, <2>4, <2>5 DEF StageInv
<1> DEFINE Same == UNCHANGED minting /\ Members' = Members /\ (Iso' <=> Iso)
<1>2. ASSUME ~Delegate PROVE Same /\ writers' = writers
  BY <1>2, Going DEF minting
<1>3. CASE UNCHANGED <<minting, pc, status, made, changed, item, landed>>
  <2>1. Members' = Members /\ (Iso' <=> Iso) /\ Busy' = Busy /\ (AllEnded' <=> AllEnded)
    BY <1>3 DEF minting, Members, Iso, Busy, AllEnded
  <2> QED
    BY <1>3, <2>1 DEF StageInv, minting
<1>4. ASSUME NEW c \in Child, Create(c) PROVE StageInv'
  <2>0. ~Delegate
    BY <1>4 DEF Create, Delegate
  <2>1. /\ pc = "create" /\ c \in Members \cap writers /\ made' = made \cup {c}
        /\ pc' = IF Uncreated = {c} THEN "run" ELSE "create"
        /\ UNCHANGED <<status, changed, item, landed>>
    BY <1>4, Created DEF Create, work, landing
  <2>2. Iso /\ Busy = {} /\ Busy' = Busy /\ item = 0 /\ Members \cap landed = {}
    BY <1>2, <2>0, <2>1 DEF StageInv, Busy
  <2>3. pc' = "run" => Members \cap writers \subseteq made'
    BY <2>1 DEF Uncreated
  <2>4. pc' = "create" \/ pc' = "run"
    BY <2>1
  <2> QED
    BY <1>2, <2>0, <2>1, <2>2, <2>3, <2>4 DEF StageInv
<1>5. ASSUME NEW c \in Child, Start(c) \/ End(c) PROVE StageInv'
  <2>0. ~Delegate /\ pc = "run" /\ UNCHANGED <<pc, made, changed, item, landed>>
    BY <1>5 DEF Start, End, Delegate, StageInv, cand, work, landing
  <2> QED
    BY <1>2, <2>0 DEF StageInv
<1>6. ASSUME NEW c \in Child, NEW f \in File, Writes(c, f) \/ Deletes(c, f) \/ Runs(c, f)
      PROVE  StageInv'
  <2>0. c \in Busy /\ pc = "run"
    BY <1>6 DEF Writes, Deletes, Runs, StageInv
  <2>1. ~Delegate /\ UNCHANGED <<pc, status, made, item, landed>>
    BY <1>6, <2>0 DEF Writes, Deletes, Runs, Delegate, landing
  <2>2. \/ changed' = changed
        \/ changed' = [changed EXCEPT ![c] = changed[c] \cup {f}] /\ c \in writers
    BY <1>6 DEF Writes, Deletes, Runs
  <2>3. \A d \in Child : changed'[d] # {} => d \in writers
    BY <1>0, <2>2 DEF StageInv, WorkOK
  <2> QED
    BY <1>2, <2>0, <2>1, <2>3 DEF StageInv
<1>7. ASSUME NEW c \in Child, Promote(c) PROVE StageInv'
  <2>1. /\ ~Delegate /\ pc = "land" /\ UNCHANGED <<status, made, changed, landed>>
        /\ pc' = "land" \/ (pc' = "lead" /\ item' = 0)
    BY <1>7 DEF Promote, Raise, Delegate, cand, work
  <2> QED
    BY <1>2, <2>1 DEF StageInv, Busy, AllEnded
<1>8. ASSUME NEW f \in File, Copy(f) PROVE StageInv'
  <2>1. pc = "land" /\ ~Delegate /\ UNCHANGED <<pc, status, made, changed>>
    BY <1>8 DEF Copy, StageInv, Delegate, cand, work
  <2> QED
    BY <1>2, <2>1 DEF StageInv, Busy, AllEnded
<1>9. CASE CreateRaises \/ CopyRaises \/ Gate \/ Landed \/ Join
  <2>1. /\ UNCHANGED <<status, made, changed>> /\ (landed' = landed) /\ item' \in {item, 0}
        /\ pc # "lead"
    BY <1>9 DEF CreateRaises, CopyRaises, Gate, Landed, Join, Raise, Return, cand, work, landing,
       StageInv
  <2>2. ~Delegate /\ Busy' = Busy /\ (AllEnded' <=> AllEnded)
    BY <1>2, <2>1 DEF Delegate, Busy, AllEnded
  <2>3. \/ pc' = "lead" /\ (pc = "run" => Over)
        \/ pc = "run" /\ pc' = "gate" /\ Over /\ ~Failed /\ Kind = "isolated"
        \/ pc = "gate" /\ pc' = "land"
    BY <1>9 DEF CreateRaises, CopyRaises, Gate, Landed, Join, Raise, Return, StageInv
  <2>4. item' # 0 => item # 0 /\ pc = "land"
    BY <2>1 DEF StageInv
  <2>5. Over => Busy = {}
    BY <1>0 DEF Over, AllEnded, Busy, Ended
  <2>6. pc' = "land" => pc = "gate"
    BY <2>3
  <2>7. item' # 0 => pc' = "land"
    <3>1. Landed => item = 0
      BY DEF Landed, LandInv
    <3>2. pc = "land" => CopyRaises \/ Landed
      BY <1>9 DEF CreateRaises, Gate, Join
    <3>3. CopyRaises => item' = 0
      BY DEF CopyRaises, Raise
    <3>4. Landed => item' = item
      BY DEF Landed, Return, landing
    <3> QED
      BY <2>4, <3>1, <3>2, <3>3, <3>4
  <2> QED
    BY <1>2, <2>1, <2>2, <2>3, <2>5, <2>7, KindIs DEF StageInv, Over
<1>10. ASSUME NEW f \in File, LeadWrites(f) PROVE StageInv'
  BY <1>3, <1>10 DEF LeadWrites, cand, work, landing
<1>11. CASE Outside \/ UNCHANGED vars
  BY <1>3, <1>11 DEF Outside, vars, minting, cand, work, landing
<1> QED
  BY <1>1, <1>4, <1>5, <1>6, <1>7, <1>8, <1>9, <1>10, <1>11 DEF Next

LEMMA OwnNext == Typed /\ FreshInv /\ StageInv /\ OwnInv /\ [Next]_vars => OwnInv'
<1> SUFFICES ASSUME Typed, FreshInv, StageInv, OwnInv, [Next]_vars PROVE OwnInv'
  OBVIOUS
<1>0. RepoOK /\ WorkOK /\ Members \subseteq Child /\ made \subseteq Child
  BY TypedParts, MembersAre DEF WorkOK
<1>1. CASE Delegate
  <2>1. UNCHANGED <<cand, work>> /\ \A c \in Members' : changed[c] = {}
    BY <1>1, Asked
  <2> QED
    BY <2>1 DEF OwnInv, cand, work
<1>2. CASE /\ UNCHANGED <<cand, work>> /\ Members' = Members
           /\ pc' = "run" => pc = "run"
           /\ pc = "run" => \A c \in Child, g \in File : c \in shared[g] => c \in shared'[g]
  <2>1. UNCHANGED <<tree, made, changed>>
    BY <1>2 DEF cand, work
  <2>2. \A c \in Child : changed[c] \subseteq File
    BY <1>0 DEF WorkOK
  <2>3. ASSUME pc = "run", NEW c \in Members \ made, NEW f \in changed[c] PROVE c \in shared'[f]
    <3>1. c \in Child /\ f \in File /\ c \in shared[f]
      BY <1>0, <2>2, <2>3 DEF OwnInv
    <3> QED
      BY <1>2, <2>3, <3>1
  <2> QED
    BY <1>2, <2>1, <2>3 DEF OwnInv
<1>3. ASSUME NEW c \in Child, Create(c) PROVE OwnInv'
  <2>0. Members' = Members
    BY <1>3 DEF Create, Members, minting
  <2>1. /\ pc = "create" /\ c \in Members /\ made' = made \cup {c}
        /\ \A d \in Child : d # c => tree'[d] = tree[d]
    BY <1>3, Created
  <2>2. changed' = changed /\ \A d \in Members : changed[d] = {}
    BY <1>3, <2>1 DEF Create, work, StageInv
  <2> QED
    BY <1>0, <2>0, <2>1, <2>2 DEF OwnInv
<1>4. ASSUME NEW c \in Child, NEW f \in File, Writes(c, f) \/ Deletes(c, f) \/ Runs(c, f)
      PROVE  OwnInv'
  <2>1. /\ Edit(c, f) /\ UNCHANGED <<minting, pc, made>> /\ c \in Members
        /\ changed' = changed \/ changed' = [changed EXCEPT ![c] = changed[c] \cup {f}]
    BY <1>4 DEF Writes, Deletes, Runs, Busy
  <2>2. Members' = Members
    BY <2>1 DEF Members, minting
  <2>3. \A d \in Child, g \in File : g \in changed'[d] => g \in changed[d] \/ (d = c /\ g = f)
    BY <1>0, <2>1 DEF WorkOK
  <2>4. \A d \in Child, g \in File : tree[d][g] \subseteq tree'[d][g]
    BY <1>0, <2>1, Edited
  <2>5. \A g \in File : shared[g] \subseteq shared'[g]
    BY <1>0, <2>1, Edited
  <2>6. c \in made => c \in tree'[c][f]
    BY <1>0, <2>1, Edited
  <2>7. c \notin made => c \in shared'[f]
    <3>1. RepoOK /\ Edit(c, f)
      BY <1>0, <2>1
    <3>2. \A g \in File :
            shared'[g] = IF g = f /\ c \notin made THEN shared[g] \cup {c} ELSE shared[g]
      BY <3>1, Edited, Zenon
    <3> QED
      BY <3>2
  <2>8. \A d \in Child : changed'[d] \subseteq File
    BY <1>0, <2>1 DEF WorkOK
  <2>9. ASSUME NEW d \in made, NEW g \in changed'[d] PROVE d \in tree'[d][g]
    BY <1>0, <2>3, <2>4, <2>6, <2>8 DEF OwnInv
  <2>10. ASSUME pc = "run", NEW d \in Members \ made, NEW g \in changed'[d]
         PROVE  d \in shared'[g]
    BY <1>0, <2>3, <2>5, <2>7, <2>8, <2>10 DEF OwnInv
  <2> QED
    BY <2>1, <2>2, <2>9, <2>10 DEF OwnInv
<1>5. ASSUME NEW f \in File, LeadWrites(f) PROVE OwnInv'
  BY <1>2, <1>5 DEF LeadWrites, Members, minting
<1>6. CASE Outside
  <2>1. \A c \in Child, g \in File : c \in shared[g] => c \in shared'[g]
    BY <1>0, <1>6, Outer DEF Outside
  <2> QED
    BY <1>2, <1>6, <2>1 DEF Outside, Members, minting
<1>7. ASSUME NEW f \in File, Copy(f) PROVE OwnInv'
  BY <1>2, <1>7 DEF Copy, StageInv, Members, minting
<1>8. ASSUME NEW c \in Child, Start(c) \/ End(c) \/ Promote(c) PROVE OwnInv'
  BY <1>2, <1>8 DEF Start, End, Promote, Raise, Members, minting, repo
<1>9. CASE CreateRaises \/ Join \/ Gate \/ CopyRaises \/ Landed
  BY <1>2, <1>9 DEF CreateRaises, Join, Gate, CopyRaises, Landed, Raise, Return, Members,
     minting, repo
<1>10. CASE UNCHANGED vars
  BY <1>2, <1>10 DEF vars, cand, work, Members
<1> QED
  BY <1>1, <1>3, <1>4, <1>5, <1>6, <1>7, <1>8, <1>9, <1>10 DEF Next

LEMMA ApartNext == Typed /\ FreshInv /\ StageInv /\ ApartInv /\ [Next]_vars => ApartInv'
<1> SUFFICES ASSUME Typed, FreshInv, StageInv, ApartInv, [Next]_vars PROVE ApartInv'
  OBVIOUS
<1>0. RepoOK /\ Members \subseteq Child
  BY TypedParts, MembersAre
<1>1. CASE Delegate
  <2>1. UNCHANGED repo /\ \A c \in Members' : \A f \in File : c \notin shared[f]
    BY <1>1, Asked
  <2> QED
    BY <2>1 DEF ApartInv, repo
<1>2. ASSUME Members' = Members, Iso' <=> Iso, made' = made,
             \/ pc' \notin {"create", "run", "gate"}
             \/ /\ pc' = pc \/ (pc = "run" /\ pc' = "gate")
                /\ \A c \in Child, g \in File : c \in shared'[g] => c \in shared[g]
      PROVE  ApartInv'
  BY <1>0, <1>2 DEF ApartInv
<1>3. ASSUME NEW c \in Child, Create(c) PROVE ApartInv'
  <2>1. /\ pc = "create" /\ shared' = shared /\ Members' = Members /\ (Iso' <=> Iso)
    BY <1>3 DEF Create, minting, repo, Members, Iso
  <2> QED
    BY <2>1 DEF ApartInv
<1>4. ASSUME NEW c \in Child, NEW f \in File, Writes(c, f) \/ Deletes(c, f) \/ Runs(c, f)
      PROVE  ApartInv'
  <2>1. Edit(c, f) /\ UNCHANGED <<minting, pc, made>> /\ c \in Busy
    BY <1>4 DEF Writes, Deletes, Runs
  <2>2. Members' = Members /\ (Iso' <=> Iso) /\ pc = "run"
    BY <2>1 DEF Members, Iso, minting, StageInv
  <2>3. \A d \in made, g \in File : d \in shared'[g] => d \in shared[g]
    <3>1. RepoOK /\ Edit(c, f)
      BY <1>0, <2>1
    <3>2. \A g \in File :
            shared'[g] = IF g = f /\ c \notin made THEN shared[g] \cup {c} ELSE shared[g]
      BY <3>1, Edited, Zenon
    <3> QED
      BY <3>2
  <2> QED
    BY <2>1, <2>2, <2>3 DEF ApartInv
<1>5. ASSUME NEW f \in File, LeadWrites(f) PROVE ApartInv'
  BY <1>5 DEF LeadWrites, ApartInv
<1>6. CASE Outside
  <2>1. \A c \in Child, g \in File : c \in shared'[g] => c \in shared[g]
    BY <1>0, <1>6, Outer DEF Outside
  <2> QED
    BY <1>2, <1>6, <2>1 DEF Outside, Members, Iso, minting, cand
<1>7. ASSUME NEW f \in File, Copy(f) PROVE ApartInv'
  BY <1>7 DEF Copy, StageInv, ApartInv
<1>8. ASSUME NEW c \in Child, Start(c) \/ End(c) \/ Promote(c) PROVE ApartInv'
  BY <1>2, <1>8 DEF Start, End, Promote, Raise, Members, Iso, minting, repo, cand
<1>9. CASE CreateRaises \/ Join \/ Gate \/ CopyRaises \/ Landed
  BY <1>2, <1>9 DEF CreateRaises, Join, Gate, CopyRaises, Landed, Raise, Return, Members, Iso,
     minting, repo, cand
<1>10. CASE UNCHANGED vars
  BY <1>2, <1>10 DEF vars, Members, Iso
<1> QED
  BY <1>1, <1>3, <1>4, <1>5, <1>6, <1>7, <1>8, <1>9, <1>10 DEF Next

LEMMA BaseNext == Typed /\ FreshInv /\ StageInv /\ BaseInv /\ [Next]_vars => BaseInv'
<1> SUFFICES ASSUME Typed, FreshInv, StageInv, BaseInv, [Next]_vars PROVE BaseInv'
  OBVIOUS
<1>0. RepoOK /\ BatchOK /\ Members \subseteq Child /\ worktree \subseteq made
  BY TypedParts, MembersAre DEF WorkOK
<1>1. CASE Delegate
  <2>1. UNCHANGED cand /\ Members' \cap made = {}
    BY <1>1, Asked
  <2> QED
    BY <2>1 DEF BaseInv, cand
<1>2. ASSUME Members' = Members, UNCHANGED <<repo, cand>>, disturbed' = disturbed,
             \/ pc' \notin {"create", "run", "gate"}
             \/ pc' = pc \/ (pc = "run" /\ pc' = "gate")
      PROVE  BaseInv'
  BY <1>2 DEF BaseInv, Kept, repo, cand
<1>3. ASSUME NEW c \in Child, Create(c) PROVE BaseInv'
  <2>1. Members' = Members /\ UNCHANGED <<repo, disturbed>>
    BY <1>3 DEF Create, minting, Members
  <2>2. /\ pc = "create" /\ made' = made \cup {c} /\ c \in Members
        /\ \A d \in Child : d # c => tree'[d] = tree[d] /\ (d \in worktree' <=> d \in worktree)
        /\ \/ tree'[c] = head /\ c \in worktree'
           \/ tree'[c] = shared /\ c \notin worktree'
    BY <1>3, Created
  <2>3. Kept(c, File)'
    BY <2>1, <2>2 DEF Kept, repo
  <2>4. ASSUME ~disturbed, NEW d \in Members \cap made, d # c PROVE Kept(d, File)'
    <3>1. Kept(d, File) /\ d \in Child
      BY <1>0, <2>2, <2>4 DEF BaseInv
    <3> QED
      BY <2>1, <2>2, <2>4, <3>1 DEF Kept, repo
  <2> QED
    BY <2>1, <2>2, <2>3, <2>4 DEF BaseInv
<1>4. ASSUME NEW c \in Child, NEW f \in File, Writes(c, f) \/ Deletes(c, f) \/ Runs(c, f)
      PROVE  BaseInv'
  <2>1. Edit(c, f) /\ UNCHANGED <<head, minting, pc, made, worktree>> /\ c \in Busy
    BY <1>4 DEF Writes, Deletes, Runs
  <2>2. Members' = Members /\ (Iso' <=> Iso) /\ pc = "run" /\ c \in Members
    BY <2>1 DEF Members, Iso, minting, StageInv, Busy
  <2>3. CASE ~Iso
    <3>1. Members \cap made = {}
      BY <2>3 DEF StageInv
    <3> QED
      BY <2>1, <2>2, <3>1 DEF BaseInv
  <2>4. CASE Iso /\ c \notin made
    <3>1. c \notin writers
      BY <2>2, <2>4 DEF StageInv
    <3>2. Runs(c, f)
      BY <1>4, <3>1 DEF Writes, Deletes
    <3>3. Kind = "isolated"
      BY <2>4, KindIs
    <3>4. disturbed'
      BY <3>1, <3>2, <3>3 DEF Runs
    <3> QED
      BY <3>4 DEF BaseInv
  <2>5. CASE c \in made
    <3>1. shared' = shared /\ \A d \in Child, g \in File : tree[d][g] \subseteq tree'[d][g]
      BY <1>0, <2>1, <2>5, Edited DEF Edit, Isolated
    <3>2. disturbed' = FALSE => disturbed = FALSE
      BY <1>0, <1>4 DEF Writes, Deletes, Runs, BatchOK
    <3>3. disturbed \in BOOLEAN
      BY <1>0 DEF BatchOK
    <3>4. ASSUME ~disturbed', NEW d \in Members \cap made PROVE Kept(d, File)'
      <4>1. Kept(d, File) /\ d \in Child
        BY <1>0, <2>2, <3>2, <3>3, <3>4 DEF BaseInv
      <4> QED
        BY <2>1, <3>1, <4>1 DEF Kept
    <3> QED
      BY <2>1, <2>2, <3>4 DEF BaseInv
  <2> QED
    BY <2>3, <2>4, <2>5
<1>5. ASSUME NEW f \in File, LeadWrites(f) PROVE BaseInv'
  BY <1>5 DEF LeadWrites, BaseInv
<1>6. CASE Outside
  BY <1>6 DEF Outside, BaseInv
<1>7. ASSUME NEW f \in File, Copy(f) PROVE BaseInv'
  BY <1>7 DEF Copy, StageInv, BaseInv
<1>8. ASSUME NEW c \in Child, Start(c) \/ End(c) \/ Promote(c) PROVE BaseInv'
  BY <1>2, <1>8 DEF Start, End, Promote, Raise, Members, minting
<1>9. CASE CreateRaises \/ Join \/ Gate \/ CopyRaises \/ Landed
  BY <1>2, <1>9 DEF CreateRaises, Join, Gate, CopyRaises, Landed, Raise, Return, Members, minting
<1>10. CASE UNCHANGED vars
  BY <1>2, <1>10 DEF vars, Members, repo, cand
<1> QED
  BY <1>1, <1>3, <1>4, <1>5, <1>6, <1>7, <1>8, <1>9, <1>10 DEF Next

\* While the batch lands nobody of it works, and its items stay.
LEMMA ItemsStay ==
  ASSUME UNCHANGED <<minting, status, made, changed>> PROVE Items' = Items
  BY DEF Items, Members, minting

\* A promotion copies one file more.
LEMMA CopyLands ==
  ASSUME Typed, StageInv, OwnInv, LandInv, NEW f \in File, Copy(f)
  PROVE  LandInv'
<1>0. /\ pc = "land" /\ pc' = "land" /\ Items' = Items
      /\ UNCHANGED <<head, tree, made, worktree, changed, disturbed>>
      /\ item # 0 /\ f \in todo /\ todo' = todo \ {f}
      /\ item' = (IF todo = {f} THEN 0 ELSE item)
      /\ landed' = (IF todo = {f} THEN landed \cup {item} ELSE landed)
  BY ItemsStay DEF Copy, StageInv, cand, work
<1>1. /\ item \in Items \ landed /\ todo \subseteq changed[item]
      /\ \A g \in changed[item] \ todo : item \in shared[g]
      /\ \A c, d \in Items : c # d => changed[c] \cap changed[d] = {}
      /\ \A c \in Items \cap landed : \A g \in changed[c] : c \in shared[g]
  BY <1>0 DEF LandInv, Disjoint
<1>2. Items \subseteq Child /\ Items \subseteq made /\ \A c \in Child : changed[c] \subseteq File
  BY TypedParts, MembersAre DEF Items, WorkOK
<1>3. \A g \in File : shared'[g] = IF g = f THEN tree[item][f] ELSE shared[g]
  BY Copies
<1>4. item \in shared'[f]
  BY <1>1, <1>2, <1>0, <1>3 DEF OwnInv
<1>5. \A c \in Items : c # item => f \notin changed[c]
  BY <1>0, <1>1
<1>6. ASSUME NEW c \in Items, c # item, NEW g \in changed[c] PROVE shared'[g] = shared[g]
  BY <1>2, <1>3, <1>5, <1>6
<1>7. ASSUME NEW g \in changed[item], item \in shared[g] \/ g = f PROVE item \in shared'[g]
  BY <1>1, <1>2, <1>3, <1>4, <1>7
<1>8. \A c \in Items \cap landed' : \A g \in changed[c] : c \in shared'[g]
  <2>1. ASSUME NEW c \in Items \cap landed', c # item, NEW g \in changed[c]
        PROVE  c \in shared'[g]
    BY <1>0, <1>1, <1>6, <2>1
  <2>2. ASSUME item \in landed', NEW g \in changed[item] PROVE item \in shared'[g]
    <3>1. todo = {f}
      BY <1>0, <1>1, <2>2
    <3> QED
      BY <1>1, <1>7, <3>1
  <2> QED
    BY <2>1, <2>2
<1>9. ASSUME item' # 0
      PROVE  /\ item' = item /\ landed' = landed
             /\ \A g \in changed[item] \ todo' : item \in shared'[g]
  BY <1>0, <1>1, <1>7, <1>9
<1>10. ASSUME ~disturbed
       PROVE  /\ \A c \in Items \ landed' : c # item' => Kept(c, changed[c])'
              /\ item' # 0 => \A g \in todo' : shared'[g] \subseteq tree[item][g]
  <2>1. /\ \A c \in Items \ landed : c # item => Kept(c, changed[c])
        /\ \A g \in todo : shared[g] \subseteq tree[item][g]
    BY <1>0, <1>10 DEF LandInv
  <2>2. ASSUME NEW c \in Items \ landed', c # item' PROVE Kept(c, changed[c])'
    <3>1. c # item /\ c \in Items \ landed
      BY <1>0, <2>2
    <3>2. Kept(c, changed[c])
      BY <2>1, <3>1
    <3> QED
      BY <1>0, <1>6, <3>1, <3>2 DEF Kept
  <2>3. \A g \in todo' : shared'[g] \subseteq tree[item][g]
    <3>1. \A g \in todo' : g \in File /\ g # f /\ g \in todo
      BY <1>0, <1>1, <1>2
    <3> QED
      BY <1>3, <2>1, <3>1
  <2> QED
    BY <2>2, <2>3
<1> QED
  BY <1>0, <1>1, <1>8, <1>9, <1>10 DEF LandInv, Disjoint

\* The next item, when it is ready.
LEMMA PromoteLands ==
  ASSUME Typed, LandInv, NEW c \in Child, Promote(c)
  PROVE  LandInv'
<1>0. /\ pc = "land" /\ item = 0 /\ c \in Items \ landed /\ Items' = Items
      /\ UNCHANGED <<head, shared, tree, worktree, changed, disturbed>>
  BY ItemsStay DEF Promote, repo, cand, work
<1>1. CASE ~Ready(c)
  <2>1. pc' = "lead"
    BY <1>1 DEF Promote, Raise
  <2> QED
    BY <2>1 DEF LandInv
<1>2. CASE Ready(c)
  <2>1. item' = c /\ todo' = changed[c] /\ landed' = landed /\ pc' = "land"
    BY <1>0, <1>2 DEF Promote
  <2>2. changed[c] \subseteq File
    BY TypedParts DEF WorkOK
  <2>3. ASSUME ~disturbed PROVE \A f \in changed[c] : shared[f] \subseteq tree[c][f]
    <3>1. Kept(c, changed[c])
      <4>1. c # 0
        BY DEF Child
      <4> QED
        BY <1>0, <2>3, <4>1 DEF LandInv
    <3> QED
      BY <1>2, <2>2, <3>1 DEF Kept, Ready
  <2>5. ASSUME ~disturbed, NEW d \in Items \ landed, d # c PROVE Kept(d, changed[d])'
    <3>1. d # 0
      BY <2>5, TypedParts, MembersAre DEF Items, Child
    <3>2. Kept(d, changed[d])
      BY <1>0, <2>5, <3>1 DEF LandInv
    <3> QED
      BY <1>0, <3>2 DEF Kept
  <2>6. /\ Disjoint(Items, changed)
        /\ \A d \in Items \cap landed : \A f \in changed[d] : d \in shared[f]
    BY <1>0 DEF LandInv
  <2> QED
    BY <1>0, <2>1, <2>3, <2>5, <2>6 DEF LandInv, Disjoint
<1> QED
  BY <1>1, <1>2

LEMMA LandNext ==
  Typed /\ StageInv /\ OwnInv /\ BaseInv /\ LandInv /\ [Next]_vars => LandInv'
<1> SUFFICES ASSUME Typed, StageInv, OwnInv, BaseInv, LandInv, [Next]_vars PROVE LandInv'
  OBVIOUS
<1>0. RepoOK /\ BatchOK /\ WorkOK /\ Members \subseteq Child
  BY TypedParts, MembersAre
<1>1. CASE pc' # "land"
  BY <1>1 DEF LandInv
<1>2. CASE Gate /\ pc' = "land"
  <2>1. /\ pc = "gate" /\ GateOk /\ item = 0 /\ Members \cap landed = {}
        /\ UNCHANGED <<minting, status, cand, work, repo, landing, disturbed>>
    BY <1>2 DEF Gate, Return, StageInv
  <2>2. Items' = Items
    BY <2>1, ItemsStay DEF cand, work
  <2>3. ASSUME ~disturbed, NEW c \in Items PROVE Kept(c, changed[c])'
    <3>1. Kept(c, File) /\ changed[c] \subseteq File
      BY <1>0, <2>1, <2>3 DEF BaseInv, Items, WorkOK
    <3> QED
      BY <2>1, <3>1 DEF Kept, repo, cand, work
  <2>4. UNCHANGED <<head, shared, tree, worktree, changed, item, landed>>
    BY <2>1 DEF cand, work, repo, landing
  <2>5. Disjoint(Items, changed) /\ Items \subseteq Members
    BY <2>1 DEF GateOk, Items
  <2> QED
    BY <2>1, <2>2, <2>3, <2>4, <2>5 DEF LandInv, Disjoint
<1>3. ASSUME NEW c \in Child, Promote(c) PROVE LandInv'
  BY <1>3, PromoteLands
<1>4. ASSUME NEW f \in File, Copy(f) PROVE LandInv'
  BY <1>4, CopyLands
<1>5. CASE Outside
  <2>1. UNCHANGED <<minting, pc, status, cand, work, landing>> /\ (pc = "land" => disturbed')
    BY <1>5 DEF Outside
  <2>2. Items' = Items
    BY <2>1, ItemsStay DEF cand, work
  <2>3. \A c \in Child, g \in File : c \in shared[g] => c \in shared'[g]
    BY <1>0, <1>5, Outer DEF Outside
  <2>4. Items \subseteq Child /\ \A c \in Child : changed[c] \subseteq File
    BY <1>0 DEF Items, WorkOK
  <2>5. UNCHANGED <<changed, item, todo, landed>>
    BY <2>1 DEF work, landing
  <2> QED
    BY <2>1, <2>2, <2>3, <2>4, <2>5 DEF LandInv, Disjoint
<1>6. CASE UNCHANGED vars
  <2>1. Items' = Items
    BY <1>6, ItemsStay DEF vars, minting
  <2> QED
    BY <1>6, <2>1 DEF vars, LandInv, Disjoint, Kept
<1>7. ASSUME NEW c \in Child, NEW f \in File, Writes(c, f) \/ Deletes(c, f) \/ Runs(c, f)
      PROVE  pc' # "land"
  BY <1>7 DEF Writes, Deletes, Runs, StageInv
<1>8. ASSUME NEW c \in Child, Create(c) \/ Start(c) \/ End(c) PROVE pc' # "land"
  BY <1>8 DEF Create, Start, End, StageInv
<1>9. ASSUME NEW f \in File, LeadWrites(f) PROVE pc' # "land"
  BY <1>9 DEF LeadWrites
<1>10. CASE Delegate \/ CreateRaises \/ Join \/ CopyRaises \/ Landed
  <2>1. pc' # "land"
    BY <1>10 DEF Delegate, CreateRaises, Join, CopyRaises, Landed, Raise, Return
  <2> QED
    BY <1>1, <2>1
<1> QED
  BY <1>1, <1>2, <1>3, <1>4, <1>5, <1>6, <1>7, <1>8, <1>9, <1>10 DEF Next

LEMMA ReturnNext ==
  Typed /\ StageInv /\ ApartInv /\ LandInv /\ ReturnedAllOrNone /\ [Next]_vars
  => ReturnedAllOrNone'
<1> SUFFICES ASSUME Typed, StageInv, ApartInv, LandInv, ReturnedAllOrNone, [Next]_vars,
                    pc' = "lead", raised' = "no"
             PROVE  AllIn' \/ NoneIn'
  BY DEF ReturnedAllOrNone
<1>0. RepoOK /\ WorkOK /\ Items \subseteq Child /\ \A c \in Child : changed[c] \subseteq File
  BY TypedParts, MembersAre DEF Items, WorkOK
<1>1. ASSUME AllIn \/ NoneIn, Items' = Items, changed' = changed,
             \A c \in Child, f \in File : c \in shared'[f] <=> c \in shared[f]
      PROVE  AllIn' \/ NoneIn'
  BY <1>0, <1>1 DEF AllIn, NoneIn
<1>2. ASSUME UNCHANGED <<minting, status, cand, work>> PROVE Items' = Items /\ changed' = changed
  BY <1>2, ItemsStay DEF cand, work
<1>3. ASSUME NEW f \in File, LeadWrites(f) PROVE AllIn' \/ NoneIn'
  <2>1. /\ UNCHANGED <<minting, status, cand, work>> /\ pc = "lead" /\ raised = "no"
        /\ shared' = With(shared, f, Lead)
    BY <1>3 DEF LeadWrites
  <2> QED
    BY <1>0, <1>1, <1>2, <2>1, Outer DEF ReturnedAllOrNone
<1>4. CASE Outside
  <2>1. UNCHANGED <<minting, status, cand, work>> /\ pc = "lead" /\ raised = "no"
    BY <1>4 DEF Outside
  <2>2. \A c \in Child, f \in File : c \in shared'[f] <=> c \in shared[f]
    BY <1>0, <1>4, Outer DEF Outside
  <2> QED
    BY <1>1, <1>2, <2>1, <2>2 DEF ReturnedAllOrNone
<1>5. CASE Join
  <2>1. Kind # "isolated" /\ UNCHANGED <<repo, minting, status, cand, work>>
    BY <1>5 DEF Join, Raise
  <2>2. Members \cap made = {}
    BY <2>1, KindIs DEF StageInv
  <2>3. Items' = {}
    BY <1>2, <2>1, <2>2 DEF Items
  <2> QED
    BY <2>3 DEF AllIn
<1>6. CASE Gate
  <2>1. pc = "gate" /\ UNCHANGED <<repo, minting, status, cand, work>> /\ (Items = {} \/ ~GateOk)
    BY <1>6 DEF Gate
  <2>2. Items' = Items /\ changed' = changed /\ shared' = shared
    BY <1>2, <2>1 DEF repo
  <2>3. NoneIn
    BY <2>1 DEF StageInv, ApartInv, NoneIn, Items
  <2> QED
    BY <2>2, <2>3 DEF NoneIn
<1>7. CASE Landed
  <2>1. UNCHANGED <<repo, minting, status, cand, work>> /\ pc = "land" /\ Items \subseteq landed
    BY <1>7 DEF Landed
  <2>2. Items' = Items /\ changed' = changed /\ shared' = shared
    BY <1>2, <2>1 DEF repo
  <2>3. AllIn
    BY <2>1 DEF LandInv, AllIn
  <2> QED
    BY <2>2, <2>3 DEF AllIn
<1>8. ASSUME NEW c \in Child, NEW f \in File, Writes(c, f) \/ Deletes(c, f) \/ Runs(c, f)
      PROVE  FALSE
  BY <1>8 DEF Writes, Deletes, Runs, StageInv
<1>9. ASSUME NEW c \in Child, Create(c) \/ Start(c) \/ End(c) \/ Promote(c) PROVE FALSE
  BY <1>9 DEF Create, Start, End, Promote, Raise, StageInv
<1>10. ASSUME NEW f \in File, Copy(f) PROVE FALSE
  BY <1>10 DEF Copy, StageInv
<1>11. CASE Delegate \/ CreateRaises \/ CopyRaises
  BY <1>11 DEF Delegate, CreateRaises, CopyRaises, Raise
<1>12. CASE UNCHANGED vars
  <2>1. UNCHANGED <<minting, status, cand, work, shared, pc, raised>>
    BY <1>12 DEF vars, minting, cand, work
  <2> QED
    BY <1>1, <1>2, <2>1 DEF ReturnedAllOrNone
<1> QED
  BY <1>3, <1>4, <1>5, <1>6, <1>7, <1>8, <1>9, <1>10, <1>11, <1>12 DEF Next

LEMMA InitInv == Init => IInv
<1> SUFFICES ASSUME Init PROVE IInv
  OBVIOUS
<1>1. Typed
  BY TypedInit
<1>2. Members = {}
  BY DEF Init, Members
<1>3. FreshInv
  BY DEF Init, FreshInv
<1>4. StageInv
  BY <1>2 DEF Init, StageInv, Busy
<1>5. OwnInv /\ ApartInv /\ BaseInv /\ LandInv
  BY DEF Init, OwnInv, ApartInv, BaseInv, LandInv
<1>6. ReturnedAllOrNone
  BY <1>2 DEF ReturnedAllOrNone, AllIn, Items
<1> QED
  BY <1>1, <1>3, <1>4, <1>5, <1>6 DEF IInv

LEMMA IInvNext == IInv /\ [Next]_vars => IInv'
  BY TypedNext, FreshNext, StageNext, OwnNext, ApartNext, BaseNext, LandNext, ReturnNext DEF IInv

LEMMA IInvAlways == Spec => []IInv
  BY InitInv, IInvNext, PTL DEF Spec

-----------------------------------------------------------------------------
(* The theorems *)

(* The state of a delegation is of its types.                               *)
THEOREM TypeCorrect == Spec => []TypeOK
<1>1. IInv => TypeOK
  BY DEF IInv, Typed
<1> QED
  BY <1>1, IInvAlways, PTL

(* A batch that comes back with results has landed every writer that        *)
(* finished, or none of them (preview_and_promote_batch).                   *)
THEOREM BatchIsWhole == Spec => []ReturnedAllOrNone
<1>1. IInv => ReturnedAllOrNone
  BY DEF IInv
<1> QED
  BY <1>1, IInvAlways, PTL

(* No promotion takes an edit out of the workspace, while nobody but the    *)
(* lead and its writers touched it under the batch.                         *)
THEOREM EditsSurvive == Spec => NothingOverwritten
<1>1. IInv /\ [Next]_vars => [~disturbed => \A f \in File : shared[f] \subseteq shared'[f]]_vars
  <2> SUFFICES ASSUME IInv, [Next]_vars, ~disturbed, NEW g \in File
               PROVE  shared[g] \subseteq shared'[g]
    OBVIOUS
  <2>0. RepoOK /\ Typed
    BY TypedParts DEF IInv
  <2>1. CASE shared' = shared
    BY <2>1
  <2>2. ASSUME NEW f \in File, LeadWrites(f) PROVE shared[g] \subseteq shared'[g]
    BY <2>0, <2>2, Outer DEF LeadWrites
  <2>3. CASE Outside
    BY <2>0, <2>1, <2>3, Outer DEF Outside
  <2>4. ASSUME NEW c \in Child, NEW f \in File, Writes(c, f) \/ Deletes(c, f) \/ Runs(c, f)
        PROVE  shared[g] \subseteq shared'[g]
    <3>1. Edit(c, f)
      BY <2>4 DEF Writes, Deletes, Runs
    <3> QED
      BY <2>0, <3>1, Edited
  <2>5. ASSUME NEW f \in File, Copy(f) PROVE shared[g] \subseteq shared'[g]
    <3>1. f \in todo => shared[f] \subseteq tree[item][f]
      BY <2>5 DEF IInv, StageInv, LandInv, Copy
    <3> QED
      BY <2>0, <2>5, <3>1, Copies
  <2>6. ASSUME NEW c \in Child, Create(c) \/ Start(c) \/ End(c) \/ Promote(c)
        PROVE  shared' = shared
    BY <2>6 DEF Create, Start, End, Promote, repo
  <2>7. CASE Delegate \/ CreateRaises \/ Join \/ Gate \/ CopyRaises \/ Landed \/ UNCHANGED vars
    BY <2>1, <2>7 DEF Delegate, CreateRaises, Join, Gate, CopyRaises, Landed, repo, vars
  <2> QED
    BY <2>1, <2>2, <2>3, <2>4, <2>5, <2>6, <2>7 DEF Next
<1> QED
  BY <1>1, IInvAlways, PTL DEF Spec, NothingOverwritten

(* The completion contract of the lead is credited only with what is in the *)
(* workspace, whoever touched it under the batch.                           *)
THEOREM CreditsAreTrue == Spec => CreditIsLanded
<1>1. IInv /\ [Next]_vars => [\A p \in credited' \ credited : p[1] \in shared'[p[2]]]_vars
  <2> SUFFICES ASSUME IInv, [Next]_vars, NEW p \in credited' \ credited
               PROVE  p[1] \in shared'[p[2]]
    OBVIOUS
  <2>0. WorkOK /\ Members \subseteq Child
    BY TypedParts, MembersAre DEF IInv
  <2>1. ASSUME NEW S, S \subseteq Members, Credit(S)
        PROVE  /\ p[1] \in S /\ p[2] \in File
               /\ status[p[1]] = "ok" /\ p[2] \in changed[p[1]]
    BY <2>1 DEF Credit
  <2>2. CASE Join
    <3>1. Credit(Members) /\ Kind # "isolated" /\ shared' = shared /\ pc = "run"
      BY <2>2 DEF Join, Raise, Return, repo
    <3>2. Members \cap made = {}
      BY <3>1, KindIs DEF IInv, StageInv
    <3> QED
      BY <2>1, <3>1, <3>2 DEF IInv, OwnInv
  <2>3. CASE Gate
    <3>1. /\ pc = "gate" /\ shared' = shared
          /\ (Items = {} /\ Credit(Members)) \/ Credit(Members \ Items)
      BY <2>3 DEF Gate, Return, repo
    <3>2. /\ p[1] \in Members /\ p[1] \notin Items
          /\ status[p[1]] = "ok" /\ p[2] \in changed[p[1]]
      BY <2>1, <3>1
    <3>3. p[1] \in writers /\ Members \cap writers \subseteq made
      BY <2>0, <3>1, <3>2 DEF IInv, StageInv
    <3> QED
      BY <3>2, <3>3 DEF Items
  <2>4. CASE Landed
    <3>1. pc = "land" /\ shared' = shared /\ Credit(Members) /\ Items \subseteq landed
      BY <2>4 DEF Landed, Return, repo
    <3>2. p[1] \in Members /\ status[p[1]] = "ok" /\ p[2] \in changed[p[1]]
      BY <2>1, <3>1
    <3>3. p[1] \in Items
      BY <2>0, <3>1, <3>2 DEF IInv, StageInv, Items
    <3> QED
      BY <3>1, <3>2, <3>3 DEF IInv, LandInv
  <2>5. CASE ~(Join \/ Gate \/ Landed)
    <3>1. credited' = credited
      BY <2>5 DEF Next, LeadWrites, Delegate, Create, CreateRaises, Start, Writes, Deletes, Runs,
         End, Promote, Copy, CopyRaises, Outside, Raise, vars
    <3> QED
      BY <3>1
  <2> QED
    BY <2>2, <2>3, <2>4, <2>5
<1> QED
  BY <1>1, IInvAlways, PTL DEF Spec, CreditIsLanded

-----------------------------------------------------------------------------
(* The MCP session *)

Asks(a) == worker[a].pc \in {"hello", "wait"}

\* Every id on the pipe was given out, and a message under the id somebody
\* waits for is about that one's request.
Given ==
    /\ \A a \in Attempt : worker[a].id < nextId
    /\ \A r \in inbox : r.id < nextId
    /\ \A m \in outbox : m.id < nextId

Addressed ==
    /\ \A a \in Attempt : Asks(a) => \A r \in inbox : r.id = worker[a].id => r.for = a
    /\ \A a \in Attempt : Asks(a) => \A m \in outbox : m.id = worker[a].id => m.for = a

ReplyInv == McpTypeOK /\ Given /\ Addressed /\ AnswerIsMine

\* The attempts of a call are numbered from 1.
LEMMA AttemptsOf ==
    ASSUME NEW c \in Call, NEW n
    PROVE  <<c, n>> \in Attempt <=> n \in 1..Attempts[c]
  <1>1. ASSUME <<c, n>> \in Attempt PROVE n \in 1..Attempts[c]
    <2>1. PICK d \in Call : <<c, n>> \in {d} \X (1..Attempts[d])  BY <1>1 DEF Attempt
    <2> QED  BY <2>1
  <1>2. ASSUME n \in 1..Attempts[c] PROVE <<c, n>> \in Attempt
    <2>1. <<c, n>> \in {c} \X (1..Attempts[c])  BY <1>2
    <2> QED  BY <2>1 DEF Attempt
  <1> QED  BY <1>1, <1>2

LEMMA ReplyInit == McpInit => ReplyInv
  <1> SUFFICES ASSUME McpInit PROVE ReplyInv  OBVIOUS
  <1>1. \A c \in Call : Current(c) \in Attempt
    <2> TAKE c \in Call
    <2>1. call[c].try = 1 /\ 1 \in 1..Attempts[c]  BY SessionAssumption DEF McpInit
    <2> QED  BY <2>1, AttemptsOf DEF Current
  <1>2. McpTypeOK
    <2>1. worker \in [Attempt -> [pc : Finished \cup {"look", "hello", "wait"},
                                  id : Nat, got : Attempt \cup {Nothing}]]
      BY DEF McpInit, Off, Finished
    <2>2. call \in [Call -> [pc : {"idle", "calling", "answered", "failed"}, try : Nat \ {0}]]
      BY DEF McpInit
    <2>3. nextId \in Nat \ {0} /\ run \in {"on", "closed", "exited"}  BY DEF McpInit
    <2>4. inbox = {} /\ outbox = {}  BY DEF McpInit
    <2>5. initialized \in BOOLEAN /\ open \in BOOLEAN /\ wrapped \in BOOLEAN  BY DEF McpInit
    <2> QED  BY <1>1, <2>1, <2>2, <2>3, <2>4, <2>5 DEF McpTypeOK
  <1>3. Given /\ Addressed /\ AnswerIsMine
    BY DEF McpInit, Given, Addressed, AnswerIsMine, Asks, Off
  <1> QED  BY <1>2, <1>3 DEF ReplyInv

\* A thread that ends or starts over waits for nothing.
LEMMA Moves ==
    ASSUME ReplyInv, NEW a \in Attempt, NEW w,
           w \in [pc : {"off", "done", "failed", "look"}, id : Nat, got : Attempt \cup {Nothing}],
           w.id < nextId, w.pc = "done" => w.got = a,
           worker' = [worker EXCEPT ![a] = w],
           nextId' = nextId, inbox' = inbox,
           outbox' \subseteq outbox
    PROVE  /\ worker' \in [Attempt -> [pc : Finished \cup {"look", "hello", "wait"},
                               id : Nat, got : Attempt \cup {Nothing}]]
           /\ Given' /\ Addressed' /\ AnswerIsMine'
  <1> USE DEF ReplyInv, McpTypeOK
  <1>1. \A b \in Attempt : worker'[b] = IF b = a THEN w ELSE worker[b]  OBVIOUS
  <1>2. worker' \in [Attempt -> [pc : Finished \cup {"look", "hello", "wait"},
                               id : Nat, got : Attempt \cup {Nothing}]]
    BY DEF Finished
  <1>3. Given'  BY <1>1 DEF Given
  <1>4. Addressed'  BY <1>1 DEF Addressed, Asks
  <1>5. AnswerIsMine'  BY <1>1 DEF AnswerIsMine
  <1> QED  BY <1>2, <1>3, <1>4, <1>5

\* A request goes out under an id that nothing on the pipe has.
LEMMA Requests ==
    ASSUME ReplyInv, NEW a \in Attempt, NEW to \in {"hello", "wait"},
           Request(a, to), outbox' \subseteq outbox
    PROVE  /\ worker' \in [Attempt -> [pc : Finished \cup {"look", "hello", "wait"},
                               id : Nat, got : Attempt \cup {Nothing}]]
           /\ nextId' \in Nat \ {0}
           /\ inbox' \subseteq [id : Nat, for : Attempt]
           /\ Given' /\ Addressed' /\ AnswerIsMine'
  <1> USE DEF ReplyInv, McpTypeOK
  <1> DEFINE r == [id |-> nextId, for |-> a]
  <1>1. nextId' = nextId + 1 /\ nextId' \in Nat \ {0}  BY DEF Request
  <1>2. CASE open
    <2>1. /\ inbox' = inbox \cup {r}
          /\ worker' = [worker EXCEPT ![a].pc = to, ![a].id = nextId]
      BY <1>2 DEF Request
    <2>2. /\ \A b \in Attempt : b # a => worker'[b] = worker[b]
          /\ worker'[a].pc = to /\ worker'[a].id = nextId
      BY <2>1
    <2>3. worker' \in [Attempt -> [pc : Finished \cup {"look", "hello", "wait"},
                               id : Nat, got : Attempt \cup {Nothing}]]
      BY <2>1
    <2>4. Given'  BY <1>1, <2>1, <2>2 DEF Given
    <2>5. Addressed'
      <3>1. ASSUME NEW b \in Attempt, Asks(b)', NEW m \in inbox', m.id = worker'[b].id
            PROVE  m.for = b
        BY <2>1, <2>2, <3>1 DEF Given, Addressed, Asks
      <3>2. ASSUME NEW b \in Attempt, Asks(b)', NEW m \in outbox', m.id = worker'[b].id
            PROVE  m.for = b
        BY <2>1, <2>2, <3>2 DEF Given, Addressed, Asks
      <3> QED  BY <3>1, <3>2 DEF Addressed
    <2>6. AnswerIsMine'  BY <2>2 DEF AnswerIsMine
    <2> QED  BY <1>1, <2>1, <2>3, <2>4, <2>5, <2>6
  <1>3. CASE ~open
    <2>1. /\ inbox' = inbox
          /\ worker' = [worker EXCEPT ![a].pc = "failed", ![a].id = 0]
      BY <1>3 DEF Request, Goes
    <2>2. /\ \A b \in Attempt : b # a => worker'[b] = worker[b]
          /\ worker'[a].pc = "failed" /\ worker'[a].id = 0
      BY <2>1
    <2>3. worker' \in [Attempt -> [pc : Finished \cup {"look", "hello", "wait"},
                               id : Nat, got : Attempt \cup {Nothing}]]
      BY <2>1 DEF Finished
    <2>4. Given'
      <3>1. /\ \A b \in Attempt : worker[b].id \in Nat
            /\ \A m \in inbox : m.id \in Nat
            /\ \A m \in outbox : m.id \in Nat
        BY DEF Message
      <3> QED  BY <1>1, <2>1, <2>2, <3>1 DEF Given
    <2>5. Addressed'  BY <2>1, <2>2 DEF Addressed, Asks
    <2>6. AnswerIsMine'  BY <2>2 DEF AnswerIsMine
    <2> QED  BY <1>1, <2>1, <2>3, <2>4, <2>5, <2>6
  <1> QED  BY <1>2, <1>3

LEMMA ReplyNext == ReplyInv /\ [McpNext]_mcpVars => ReplyInv'
  <1> SUFFICES ASSUME ReplyInv, [McpNext]_mcpVars PROVE ReplyInv'  OBVIOUS
  <1> USE DEF ReplyInv
  <1> DEFINE Thread == [pc : Finished \cup {"look", "hello", "wait"},
                        id : Nat, got : Attempt \cup {Nothing}]
             Calls == [pc : {"idle", "calling", "answered", "failed"}, try : Nat \ {0}]
  <1>0. worker \in [Attempt -> Thread] /\ nextId \in Nat \ {0} /\ call \in [Call -> Calls]
    BY DEF McpTypeOK
  <1>w. \A a \in Attempt : worker[a].id < nextId  BY DEF Given
  <1>e. ASSUME UNCHANGED call PROVE \A c \in Call : (Current(c) \in Attempt)'
    BY <1>e DEF McpTypeOK, Current
  <1>1. ASSUME NEW a \in Attempt, Look(a) PROVE ReplyInv'
    <2>1. Request(a, "wait") \/ Request(a, "hello")  BY <1>1 DEF Look
    <2>2. UNCHANGED <<call, initialized, open, wrapped, outbox, run>>  BY <1>1 DEF Look
    <2>3. /\ worker' \in [Attempt -> Thread] /\ nextId' \in Nat \ {0}
          /\ inbox' \subseteq [id : Nat, for : Attempt]
          /\ Given' /\ Addressed' /\ AnswerIsMine'
      BY <2>1, <2>2, Requests
    <2> QED  BY <1>e, <2>2, <2>3 DEF McpTypeOK
  <1>2. ASSUME NEW a \in Attempt, Read(a) PROVE ReplyInv'
    <2>1. UNCHANGED <<call, open, wrapped, run>>  BY <1>2 DEF Read
    <2>2. PICK m \in outbox :
            /\ outbox' = outbox \ {m}
            /\ \/ UNCHANGED <<worker, nextId, initialized, inbox>>
               \/ /\ Goes(a, "failed")
                  /\ UNCHANGED <<nextId, initialized, inbox>>
               \/ /\ Matches(a, m)
                  /\ worker' = [worker EXCEPT ![a] = [pc |-> "done", id |-> 0, got |-> m.for]]
                  /\ UNCHANGED <<nextId, initialized, inbox>>
               \/ /\ initialized' = (initialized \/ open)
                  /\ Request(a, "wait")
      BY <1>2 DEF Read
    <2>3. Asks(a)  BY <1>2 DEF Read, Asks
    <2> DEFINE Goal == /\ worker' \in [Attempt -> Thread] /\ nextId' \in Nat \ {0}
                       /\ inbox' \subseteq [id : Nat, for : Attempt]
                       /\ Given' /\ Addressed' /\ AnswerIsMine'
    <2>4. CASE UNCHANGED <<worker, nextId, initialized, inbox>>
      BY <1>e, <2>1, <2>2, <2>4 DEF McpTypeOK, Given, Addressed, AnswerIsMine, Asks
    <2>5. CASE Goes(a, "failed") /\ UNCHANGED <<nextId, initialized, inbox>>
      <3> DEFINE w == [worker[a] EXCEPT !.pc = "failed", !.id = 0]
      <3>1. worker' = [worker EXCEPT ![a] = w]  BY <1>0, <2>5 DEF Goes
      <3>2. /\ w \in [pc : {"off", "done", "failed", "look"}, id : Nat, got : Attempt \cup {Nothing}]
            /\ w.id < nextId /\ (w.pc = "done" => w.got = a)
        <4>1. worker[a] \in Thread /\ 0 < nextId  BY <1>0
        <4>2. w.pc = "failed" /\ w.id = 0  BY <4>1
        <4>3. w \in [pc : {"off", "done", "failed", "look"}, id : Nat, got : Attempt \cup {Nothing}]
          BY <4>1
        <4> QED  BY <4>1, <4>2, <4>3
      <3> HIDE DEF w
      <3>3. Goal  BY <1>0, <2>2, <2>5, <3>1, <3>2, Moves DEF McpTypeOK
      <3> QED  BY <1>e, <2>1, <2>2, <2>5, <3>3 DEF McpTypeOK
    <2>6. CASE /\ Matches(a, m)
               /\ worker' = [worker EXCEPT ![a] = [pc |-> "done", id |-> 0, got |-> m.for]]
               /\ UNCHANGED <<nextId, initialized, inbox>>
      <3> DEFINE w == [pc |-> "done", id |-> 0, got |-> m.for]
      <3>1. m.for = a  BY <2>2, <2>3, <2>6 DEF Addressed, Matches
      <3>2. /\ w \in [pc : {"off", "done", "failed", "look"}, id : Nat, got : Attempt \cup {Nothing}]
            /\ w.id < nextId /\ (w.pc = "done" => w.got = a)
            /\ worker' = [worker EXCEPT ![a] = w]
        BY <1>0, <2>6, <3>1
      <3> HIDE DEF w
      <3>3. Goal  BY <1>0, <2>2, <2>6, <3>2, Moves DEF McpTypeOK
      <3> QED  BY <1>e, <2>1, <2>2, <2>6, <3>3 DEF McpTypeOK
    <2>7. CASE initialized' = (initialized \/ open) /\ Request(a, "wait")
      <3>1. Goal  BY <2>2, <2>7, Requests
      <3> QED  BY <1>e, <2>1, <2>2, <2>7, <3>1 DEF McpTypeOK
    <2> QED  BY <2>2, <2>4, <2>5, <2>6, <2>7
  <1>3. ASSUME NEW a \in Attempt, EndOfFile(a) PROVE ReplyInv'
    <2> DEFINE w == [worker[a] EXCEPT !.pc = "failed", !.id = 0]
    <2>1. UNCHANGED <<call, nextId, initialized, open, wrapped, inbox, outbox, run>>
      BY <1>3 DEF EndOfFile
    <2>2. /\ w \in [pc : {"off", "done", "failed", "look"}, id : Nat, got : Attempt \cup {Nothing}]
          /\ w.id < nextId /\ (w.pc = "done" => w.got = a)
          /\ worker' = [worker EXCEPT ![a] = w]
      <3>1. worker[a] \in Thread /\ 0 < nextId  BY <1>0
      <3>2. w.pc = "failed" /\ w.id = 0  BY <3>1
      <3>3. w \in [pc : {"off", "done", "failed", "look"}, id : Nat, got : Attempt \cup {Nothing}]
        BY <3>1
      <3>4. worker' = [worker EXCEPT ![a] = w]  BY <1>0, <1>3 DEF EndOfFile, Goes
      <3> QED  BY <3>1, <3>2, <3>3, <3>4
    <2> HIDE DEF w
    <2>3. worker' \in [Attempt -> Thread] /\ Given' /\ Addressed' /\ AnswerIsMine'
      BY <1>0, <2>1, <2>2, Moves
    <2> QED  BY <1>e, <2>1, <2>3 DEF McpTypeOK
  \* The caller of c starts attempt n, or leaves the threads as they are.
  <1>s. ASSUME NEW c \in Call, NEW n \in 1..Attempts[c], Submit(<<c, n>>),
               UNCHANGED <<nextId, inbox, outbox>>
        PROVE  worker' \in [Attempt -> Thread] /\ Given' /\ Addressed' /\ AnswerIsMine'
    <2> DEFINE a == <<c, n>>
               w == [worker[a] EXCEPT !.pc = "look"]
    <2>1. a \in Attempt  BY AttemptsOf
    <2>2. /\ w \in [pc : {"off", "done", "failed", "look"}, id : Nat, got : Attempt \cup {Nothing}]
          /\ w.id < nextId /\ w.pc = "look"
          /\ worker' = [worker EXCEPT ![a] = w]
      BY <1>0, <1>w, <1>s, <2>1 DEF Submit
    <2> HIDE DEF w
    <2> QED  BY <1>s, <2>1, <2>2, Moves
  <1>4. ASSUME NEW c \in Call, Begin(c) PROVE ReplyInv'
    <2>1. /\ call' = [call EXCEPT ![c].pc = "calling"]
          /\ Submit(<<c, 1>>)
          /\ UNCHANGED <<nextId, initialized, open, wrapped, inbox, outbox, run>>
      BY <1>4 DEF Begin
    <2>2. 1 \in 1..Attempts[c]  BY SessionAssumption
    <2>3. worker' \in [Attempt -> Thread] /\ Given' /\ Addressed' /\ AnswerIsMine'
      BY <1>s, <2>1, <2>2
    <2>4. call' \in [Call -> Calls] /\ \A d \in Call : call'[d].try = call[d].try
      BY <1>0, <2>1
    <2> QED  BY <2>1, <2>3, <2>4 DEF McpTypeOK, Current
  <1>5. ASSUME NEW c \in Call, Deliver(c) PROVE ReplyInv'
    <2>1. /\ call' = [call EXCEPT ![c].pc = "answered"]
          /\ worker' = [worker EXCEPT ![Current(c)] = Off]
          /\ UNCHANGED <<nextId, initialized, open, wrapped, inbox, outbox, run>>
      BY <1>5 DEF Deliver
    <2>2. /\ Off \in [pc : {"off", "done", "failed", "look"}, id : Nat, got : Attempt \cup {Nothing}]
          /\ Off.id < nextId /\ Off.pc = "off" /\ Current(c) \in Attempt
      BY <1>0 DEF Off, McpTypeOK
    <2>3. worker' \in [Attempt -> Thread] /\ Given' /\ Addressed' /\ AnswerIsMine'
      BY <2>1, <2>2, Moves
    <2>4. call' \in [Call -> Calls] /\ \A d \in Call : call'[d].try = call[d].try
      BY <1>0, <2>1
    <2> QED  BY <2>1, <2>3, <2>4 DEF McpTypeOK, Current
  <1>r. ASSUME NEW c \in Call, call[c].try < Attempts[c], Retry(c),
               UNCHANGED <<nextId, initialized, wrapped, inbox, outbox, run>>, open' \in BOOLEAN
        PROVE  ReplyInv'
    <2>1. /\ call' = [call EXCEPT ![c].try = @ + 1]
          /\ Submit(<<c, call[c].try + 1>>)
      BY <1>r DEF Retry
    <2>2. call[c].try + 1 \in 1..Attempts[c]  BY <1>0, <1>r, SessionAssumption
    <2>3. worker' \in [Attempt -> Thread] /\ Given' /\ Addressed' /\ AnswerIsMine'
      BY <1>r, <1>s, <2>1, <2>2
    <2>4. /\ call' \in [Call -> Calls]
          /\ \A d \in Call : call'[d].try = IF d = c THEN call[c].try + 1 ELSE call[d].try
      BY <1>0, <2>1
    <2>5. \A d \in Call : (Current(d) \in Attempt)'
      BY <2>2, <2>4, AttemptsOf DEF McpTypeOK, Current
    <2> QED  BY <1>r, <2>3, <2>4, <2>5 DEF McpTypeOK
  <1>g. ASSUME NEW c \in Call, GiveUp(c),
               UNCHANGED <<nextId, initialized, wrapped, inbox, outbox, run>>, open' \in BOOLEAN
        PROVE  ReplyInv'
    <2>1. call' = [call EXCEPT ![c].pc = "failed"] /\ UNCHANGED worker  BY <1>g DEF GiveUp
    <2>2. call' \in [Call -> Calls] /\ \A d \in Call : call'[d].try = call[d].try
      BY <1>0, <2>1
    <2> QED  BY <1>g, <2>1, <2>2 DEF McpTypeOK, Current, Given, Addressed, AnswerIsMine, Asks
  <1>6. ASSUME NEW c \in Call, Fail(c) PROVE ReplyInv'
    <2>1. open' \in BOOLEAN /\ UNCHANGED <<nextId, initialized, wrapped, inbox, outbox, run>>
      BY <1>6 DEF Fail, McpTypeOK
    <2>2. (call[c].try < Attempts[c] /\ Retry(c)) \/ GiveUp(c)  BY <1>6 DEF Fail, Retry
    <2> QED  BY <1>r, <1>g, <2>1, <2>2
  <1>7. ASSUME NEW c \in Call, Timeout(c) PROVE ReplyInv'
    <2>1. open' \in BOOLEAN /\ UNCHANGED <<nextId, initialized, wrapped, inbox, outbox, run>>
      BY <1>7 DEF Timeout, Close, McpTypeOK
    <2>2. (call[c].try < Attempts[c] /\ Retry(c)) \/ GiveUp(c)  BY <1>7 DEF Timeout, Retry
    <2> QED  BY <1>r, <1>g, <2>1, <2>2
  \* What touches neither the threads nor the pipe.
  <1>q. ASSUME UNCHANGED <<call, worker, nextId, initialized, wrapped, inbox, outbox>>,
               open' \in BOOLEAN, run' \in {"on", "closed", "exited"}
        PROVE  ReplyInv'
    BY <1>q, <1>e DEF McpTypeOK, Given, Addressed, AnswerIsMine, Asks
  <1>8. CASE CloseAdapter  BY <1>q, <1>8 DEF CloseAdapter, Close, McpTypeOK
  <1>9. CASE Exit  BY <1>q, <1>9 DEF Exit
  <1>10. CASE Crash  BY <1>q, <1>10 DEF Crash, McpTypeOK
  <1>11. CASE Answer
    <2>1. PICK r \in inbox, ok \in BOOLEAN :
            /\ inbox' = inbox \ {r}
            /\ outbox' = outbox \cup {[id |-> r.id, for |-> r.for, ok |-> ok]}
      BY <1>11 DEF Answer
    <2>2. UNCHANGED <<call, worker, nextId, initialized, open, wrapped, run>>  BY <1>11 DEF Answer
    <2>3. r.id \in Nat /\ r.for \in Attempt /\ outbox' \subseteq Message
      BY <2>1 DEF McpTypeOK, Message
    <2>4. McpTypeOK'  BY <1>e, <2>1, <2>2, <2>3 DEF McpTypeOK
    <2>5. Given'  BY <2>1, <2>2 DEF Given
    <2>6. Addressed'  BY <2>1, <2>2 DEF Addressed, Asks
    <2>7. AnswerIsMine'  BY <2>2 DEF AnswerIsMine
    <2> QED  BY <2>4, <2>5, <2>6, <2>7
  <1>12. CASE UNCHANGED mcpVars  BY <1>q, <1>12 DEF mcpVars, McpTypeOK
  <1> QED
    BY <1>1, <1>2, <1>3, <1>4, <1>5, <1>6, <1>7, <1>8, <1>9, <1>10, <1>11, <1>12
    DEF McpNext, CallerStep, WorkerStep

LEMMA ReplyAlways == McpSpec => []ReplyInv
  <1> QED  BY ReplyInit, ReplyNext, PTL DEF McpSpec

\* Calls, threads and messages keep their types, and no call goes past its last
\* attempt (McpAdapter._call_session_with_retries).
THEOREM SessionTyped == McpSpec => []McpTypeOK
  <1>1. ReplyInv => McpTypeOK  BY DEF ReplyInv
  <1> QED  BY <1>1, ReplyAlways, PTL

\* An attempt that ended well got the reply to its own request, whatever the
\* other threads read off the shared pipe (StdioMcpSession._read_response).
THEOREM RepliesAreMine == McpSpec => []AnswerIsMine
  <1>1. ReplyInv => AnswerIsMine  BY DEF ReplyInv
  <1> QED  BY <1>1, ReplyAlways, PTL
=============================================================================
