------------------------- MODULE RepoRemovalProofs -------------------------
(***************************************************************************)
(* That removing a repository goes by the answers of its dialog and keeps  *)
(* probes out, for any worktrees, any acts of agents and any removals.     *)
(***************************************************************************)
EXTENDS RepoRemoval, TLAPS

-----------------------------------------------------------------------------
(* Removing repositories *)

(* What a checkout's folder or the main checkout's .git holds. *)
HeldIn(x) == IF x = ".git" THEN inGit ELSE work[x]

RemovingFields == {"at", "views", "todo", "takesMain", "now", "failed", "outcome"}

ViewShape(v) ==
  /\ DOMAIN v = {"seen", "missing", "blocked", "unreadable", "work", "upTo"}
  /\ v.seen \in BOOLEAN /\ v.missing \in BOOLEAN /\ v.blocked \in BOOLEAN
  /\ v.upTo \in Nat /\ v.upTo <= made

RepoShapes ==
  /\ made \in Nat
  /\ DOMAIN work = Checkouts
  /\ listed \subseteq Checkouts /\ rows \subseteq Checkouts
  /\ DOMAIN removing = RemovingFields
  /\ DOMAIN removing.views = Asked
  /\ \A x \in Asked : ViewShape(removing.views[x])

(* Each piece of work is a number of its own, and in one place. *)
OnePlace ==
  /\ \A x \in Asked : \A i \in HeldIn(x) : i \in Nat /\ i <= made
  /\ \A x, y \in Asked : x # y => HeldIn(x) \cap HeldIn(y) = {}

(* What is in a place that was reviewed was found there, or was made since; or it   *)
(* is of a folder that was not there.                                             *)
FoundOrNewer ==
  \A x \in Found(removing.views) : \A i \in HeldIn(x) :
    \/ i > removing.views[x].upTo
    \/ i \in removing.views[x].work
    \/ removing.views[x].missing

GivenUp(x) ==
  /\ removing.views[x].seen
  /\ Verdict(removing.views[x]) = "safe" \/ Choice(removing.views, x) = "discard"

Underway == removing.at \in {"folder", "record"}

(* The worktrees to go are given up by the review and the answers, as is everything *)
(* when the main checkout goes too.                                               *)
OnlyGivenUp ==
  /\ removing.at # "inspect" => /\ removing.todo \subseteq Linked
                                /\ \A c \in removing.todo : GivenUp(c)
  /\ Underway => removing.now \in Linked /\ GivenUp(removing.now)
  /\ removing.takesMain => /\ GivenUp("main") /\ GivenUp(".git")
                           /\ \A x \in Found(removing.views) : Choice(removing.views, x) # "keep"
  /\ removing.at = "main" => removing.takesMain /\ ~ removing.failed /\ removing.todo = {}

(* While none has failed, what is listed is still to go, or new. *)
NoneLeft ==
  removing.takesMain /\ ~ removing.failed /\ removing.at \in {"steps", "folder", "record", "main"} =>
    \A c \in Linked \cap listed :
      c \in added \/ c \in removing.todo \/ (Underway /\ c = removing.now)

(* A removal of a repository that is there. *)
MainStays ==
  /\ "main" \in rows => "main" \in listed
  /\ removing.at \in {"inspect", "steps", "folder", "record", "main"} => "main" \in rows
  /\ removing.at # "idle" => removing.views[".git"].seen
  /\ removing.at = "idle" => removing.todo = {}
  /\ removing.at \in {"idle", "inspect"} => ~ removing.takesMain

(* The review has looked, or is still to look, at every checkout but those added.   *)
ListedAreLookedAt ==
  removing.at = "inspect" =>
    /\ removing.todo \subseteq Checkouts
    /\ \A c \in listed : \/ c \in removing.todo \/ removing.views[c].seen
                         \/ c \in Linked \cap added

(* A folder that the review saw and that is gone is one this removal took. *)
TakenAreLocked ==
  /\ Underway \/ removing.at = "main" => removing.now \in removalLocks
  /\ removing.at = "main" => removing.now = "main"
  /\ removing.at # "idle" =>
       \A c \in Checkouts :
         removing.views[c].seen /\ ~ removing.views[c].missing /\ c \notin onDisk \cup away
           => c \in removalLocks /\ removing.at # "inspect"

RepoInv == /\ RepoShapes /\ OnePlace /\ FoundOrNewer /\ OnlyGivenUp /\ NoneLeft
           /\ MainStays /\ ListedAreLookedAt /\ TakenAreLocked

(* A record before any review. *)
LEMMA NoViewShape ==
  ASSUME made \in Nat
  PROVE  /\ DOMAIN NotRemoving = RemovingFields /\ DOMAIN NotRemoving.views = Asked
         /\ \A x \in Asked : NotRemoving.views[x] = NoView
         /\ ViewShape(NoView) /\ ~ NoView.seen
         /\ NotRemoving.at = "idle" /\ NotRemoving.todo = {} /\ ~ NotRemoving.takesMain
         /\ ~ NotRemoving.failed /\ NotRemoving.now = "none"
BY DEF NotRemoving, RemovingFields, NoView, ViewShape

(* Nothing is removed yet and no work was made. *)
LEMMA RepoInvInit == RemovalInit => RepoInv
<1> SUFFICES ASSUME RemovalInit
             PROVE  RepoInv
  OBVIOUS
<1>1. made = 0 /\ made \in Nat /\ removing = NotRemoving
  BY DEF RemovalInit
<1>2. /\ DOMAIN removing = RemovingFields /\ DOMAIN removing.views = Asked
      /\ \A x \in Asked : ViewShape(removing.views[x]) /\ ~ removing.views[x].seen
      /\ removing.at = "idle" /\ removing.todo = {} /\ ~ removing.takesMain
  BY <1>1, NoViewShape
<1>3. RepoShapes
  BY <1>1, <1>2 DEF RepoShapes, RemovalInit
<1>4. \A x \in Asked : HeldIn(x) = {}
  BY DEF HeldIn, RemovalInit, Asked
<1>5. OnePlace /\ FoundOrNewer
  BY <1>4 DEF OnePlace, FoundOrNewer, Found
<1>6. OnlyGivenUp /\ NoneLeft
  BY <1>2 DEF OnlyGivenUp, NoneLeft, Underway
<1>7. MainStays /\ ListedAreLookedAt /\ TakenAreLocked
  BY <1>2 DEF MainStays, ListedAreLookedAt, TakenAreLocked, Underway, RemovalInit, Checkouts
<1> QED BY <1>3, <1>5, <1>6, <1>7 DEF RepoInv

(* The places there are. *)
LEMMA PlacesApart ==
  /\ Asked = Checkouts \cup {".git"} /\ ".git" \notin Checkouts
  /\ "main" \in Checkouts /\ "main" \notin Linked /\ Linked \subseteq Checkouts
BY RepoRemovalAssumption DEF Asked, Checkouts

(* A step of an agent, a terminal or a volume: at most one new piece of work, and   *)
(* a worktree that is listed anew is one that was added.                          *)
LEMMA AgentFrame ==
  ASSUME RepoInv, UNCHANGED <<rows, answers, removing, removalLocks>>,
         made' \in {made, made + 1}, DOMAIN work' = Checkouts,
         NEW y \in Asked,
         \A x \in Asked : \A i \in HeldIn(x)' :
            i \in HeldIn(x) \/ (x = y /\ i = made + 1 /\ made' = made + 1),
         listed' \subseteq Checkouts, listed \subseteq listed',
         listed' \subseteq listed \cup (Linked \cap added'), added \subseteq added',
         onDisk \cup away \subseteq onDisk' \cup away'
  PROVE  RepoInv'
<1>1. RepoShapes'
  BY DEF RepoInv, RepoShapes, ViewShape
<1>2. made \in Nat
  BY DEF RepoInv, RepoShapes
<1>3. OnePlace'
  <2>1. ASSUME NEW x \in Asked, NEW i \in HeldIn(x)'
        PROVE  i \in Nat /\ i <= made'
    BY <1>2, <2>1 DEF RepoInv, OnePlace
  <2>2. ASSUME NEW x \in Asked, NEW z \in Asked, x # z, NEW i \in HeldIn(x)' \cap HeldIn(z)'
        PROVE  FALSE
    <3>1. CASE i = made + 1
      <4>1. i \notin HeldIn(x) /\ i \notin HeldIn(z)
        BY <1>2, <3>1 DEF RepoInv, OnePlace
      <4> QED BY <2>2, <4>1
    <3>2. CASE i # made + 1
      BY <2>2, <3>2 DEF RepoInv, OnePlace
    <3> QED BY <3>1, <3>2
  <2> QED BY <2>1, <2>2 DEF OnePlace
<1>4. FoundOrNewer'
  <2> SUFFICES ASSUME NEW x \in Found(removing.views), NEW i \in HeldIn(x)'
               PROVE  \/ i > removing.views[x].upTo
                      \/ i \in removing.views[x].work
                      \/ removing.views[x].missing
    BY DEF FoundOrNewer
  <2>1. x \in Asked /\ removing.views[x].upTo \in Nat /\ removing.views[x].upTo <= made
    BY DEF RepoInv, RepoShapes, ViewShape, Found
  <2>2. CASE i = made + 1
    BY <1>2, <2>1, <2>2
  <2>3. CASE i # made + 1
    BY <2>1, <2>3 DEF RepoInv, FoundOrNewer
  <2> QED BY <2>2, <2>3
<1>5. OnlyGivenUp' /\ MainStays' /\ ListedAreLookedAt'
  <2>1. OnlyGivenUp' /\ MainStays'
    BY DEF RepoInv, OnlyGivenUp, GivenUp, Underway, Choice, MainStays
  <2>2. ListedAreLookedAt'
    BY DEF RepoInv, ListedAreLookedAt
  <2> QED BY <2>1, <2>2
<1>6. NoneLeft'
  BY DEF RepoInv, NoneLeft, Underway
<1>7. TakenAreLocked'
  BY DEF RepoInv, TakenAreLocked, Underway
<1> QED BY <1>1, <1>3, <1>4, <1>5, <1>6, <1>7 DEF RepoInv

(* Agents work, publish, block and unblock, add worktrees; volumes come and go. *)
LEMMA AgentStep ==
  ASSUME RepoInv,
         \/ \E x \in Asked : AgentWorks(x)
         \/ \E c \in Checkouts : AgentPublishes(c) \/ AgentBlocks(c)
         \/ \E c \in Linked : VolumeComesOrGoes(c) \/ AgentAddsWorktree(c)
  PROVE  RepoInv'
<1>0. /\ made \in Nat /\ DOMAIN work = Checkouts /\ listed \subseteq Checkouts
      /\ ".git" \in Asked /\ Linked \subseteq Checkouts
  BY PlacesApart DEF RepoInv, RepoShapes
<1>1. ASSUME NEW x \in Asked, AgentWorks(x)
      PROVE  RepoInv'
  <2>1. /\ UNCHANGED <<rows, answers, removing, removalLocks, onDisk, away, listed, added>>
        /\ made' = made + 1
    BY <1>1 DEF AgentWorks, Meanwhile
  <2>2. \/ x \in DOMAIN work /\ UNCHANGED inGit /\ work' = [work EXCEPT ![x] = @ \cup {made + 1}]
        \/ x = ".git" /\ UNCHANGED work /\ inGit' = inGit \cup {made + 1}
        \/ x \notin DOMAIN work /\ UNCHANGED inGit /\ work' = [work EXCEPT ![x] = @ \cup {made + 1}]
    BY <1>1, <2>1 DEF AgentWorks
  <2>3. DOMAIN work' = Checkouts
    BY <1>0, <2>2
  <2>4. \A z \in Asked : \A i \in HeldIn(z)' :
          i \in HeldIn(z) \/ (z = x /\ i = made + 1 /\ made' = made + 1)
    BY <1>0, <2>1, <2>2, PlacesApart DEF HeldIn
  <2> QED BY <1>0, <2>1, <2>3, <2>4, AgentFrame
<1>2. ASSUME NEW c \in Checkouts, AgentPublishes(c)
      PROVE  RepoInv'
  <2>1. /\ UNCHANGED <<rows, answers, removing, removalLocks, onDisk, away, listed, added, made, inGit>>
        /\ work' = [work EXCEPT ![c] = {}]
    BY <1>2 DEF AgentPublishes, Meanwhile
  <2>2. DOMAIN work' = Checkouts /\ \A z \in Asked : HeldIn(z)' \subseteq HeldIn(z)
    BY <1>0, <2>1, PlacesApart DEF HeldIn
  <2> QED BY <1>0, <2>1, <2>2, AgentFrame
<1>3. ASSUME NEW c \in Checkouts, AgentBlocks(c)
      PROVE  RepoInv'
  <2>1. UNCHANGED <<rows, answers, removing, removalLocks, onDisk, away, listed, added, made, inGit, work>>
    BY <1>3 DEF AgentBlocks, Meanwhile
  <2> QED BY <1>0, <2>1, AgentFrame DEF HeldIn
<1>4. ASSUME NEW c \in Linked, VolumeComesOrGoes(c)
      PROVE  RepoInv'
  <2>1. /\ UNCHANGED <<rows, answers, removing, removalLocks, listed, added, made, inGit, work>>
        /\ onDisk \cup away \subseteq onDisk' \cup away'
    BY <1>4 DEF VolumeComesOrGoes, Meanwhile
  <2> QED BY <1>0, <2>1, AgentFrame DEF HeldIn
<1>5. ASSUME NEW c \in Linked, AgentAddsWorktree(c)
      PROVE  RepoInv'
  <2>1. /\ UNCHANGED <<rows, answers, removing, removalLocks, away, made, inGit, work>>
        /\ onDisk' = onDisk \cup {c} /\ listed' = listed \cup {c} /\ added' = added \cup {c}
    BY <1>5 DEF AgentAddsWorktree, Meanwhile
  <2> QED BY <1>0, <2>1, AgentFrame DEF HeldIn
<1> QED BY <1>1, <1>2, <1>3, <1>4, <1>5

(* A step of the removal itself goes by the same review and answers: it takes up    *)
(* only what is to go, takes a folder only under its lock, and forgets nothing    *)
(* that is left unless it has failed.                                             *)
LEMMA RemovalFrame ==
  ASSUME RepoInv, UNCHANGED <<answers, made, added, away>>,
         DOMAIN removing' = RemovingFields, removing'.views = removing.views,
         removing'.takesMain = removing.takesMain, removing'.todo \subseteq removing.todo,
         removing.at \notin {"idle", "inspect"}, removing'.at \notin {"idle", "inspect"},
         DOMAIN work' = Checkouts, \A x \in Asked : HeldIn(x)' \subseteq HeldIn(x),
         listed' \subseteq listed, rows' \subseteq Checkouts,
         "main" \in rows' => "main" \in listed',
         removing'.at \in {"steps", "folder", "record", "main"} => "main" \in rows',
         Underway' => /\ \/ removing'.now \in removing.todo
                         \/ Underway /\ removing'.now = removing.now
                      /\ removing'.now \in removalLocks',
         removing'.at = "main" =>
           /\ removing.takesMain /\ removing'.now = "main" /\ "main" \in removalLocks'
           /\ ~ removing'.failed /\ removing'.todo = {},
         removalLocks \subseteq removalLocks', onDisk \subseteq onDisk' \cup removalLocks',
         ~ removing'.failed /\ removing'.at \in {"steps", "folder", "record", "main"} =>
           /\ ~ removing.failed /\ removing.at \in {"steps", "folder", "record", "main"}
           /\ \A c \in Linked \cap listed' :
                c \in removing.todo \/ (Underway /\ c = removing.now) =>
                  c \in removing'.todo \/ (Underway' /\ c = removing'.now)
  PROVE  RepoInv'
<1>1. RepoShapes'
  BY DEF RepoInv, RepoShapes, ViewShape
<1>2. OnePlace'
  BY DEF RepoInv, OnePlace
<1>3. FoundOrNewer'
  BY DEF RepoInv, FoundOrNewer, Found
<1>4. \A x : GivenUp(x) => GivenUp(x)'
  BY DEF GivenUp, Choice
<1>5. OnlyGivenUp'
  <2>1. /\ removing.todo \subseteq Linked /\ \A c \in removing.todo : GivenUp(c)
        /\ Underway => removing.now \in Linked /\ GivenUp(removing.now)
    BY DEF RepoInv, OnlyGivenUp
  <2>2. /\ removing'.todo \subseteq Linked /\ \A c \in removing'.todo : GivenUp(c)'
        /\ Underway' => removing'.now \in Linked /\ GivenUp(removing'.now)
    BY <1>4, <2>1
  <2>3. Underway' => GivenUp(removing.now)'
    BY <2>2 DEF GivenUp, Choice
  <2>4. \A x : Choice(removing.views, x)' = Choice(removing.views, x)
    BY DEF Choice
  <2>5. removing'.takesMain => /\ GivenUp("main")' /\ GivenUp(".git")'
                               /\ \A x \in Found(removing.views)' : Choice(removing.views, x)' # "keep"
    BY <1>4, <2>4 DEF RepoInv, OnlyGivenUp, Found
  <2> QED BY <2>2, <2>3, <2>5 DEF RepoInv, OnlyGivenUp
<1>6. NoneLeft'
  BY DEF RepoInv, NoneLeft
<1>7. MainStays' /\ ListedAreLookedAt'
  BY DEF RepoInv, MainStays, ListedAreLookedAt
<1>8. TakenAreLocked'
  BY DEF RepoInv, TakenAreLocked
<1> QED BY <1>1, <1>2, <1>3, <1>5, <1>6, <1>7, <1>8 DEF RepoInv

(* What the steps of a removal under way start from. *)
LEMMA UnderwayFacts ==
  ASSUME RepoInv
  PROVE  /\ DOMAIN removing = RemovingFields /\ DOMAIN work = Checkouts
         /\ listed \subseteq Checkouts /\ rows \subseteq Checkouts
         /\ removing.at = "steps" => removing.todo \subseteq Linked
         /\ Underway => removing.now \in Linked /\ removing.now \in removalLocks
         /\ removing.at = "main" => removing.takesMain /\ removing.now = "main"
                                    /\ "main" \in removalLocks
         /\ removing.at \in {"steps", "folder", "record", "main"} => "main" \in rows
         /\ "main" \in rows => "main" \in listed
BY DEF RepoInv, RepoShapes, OnlyGivenUp, MainStays, TakenAreLocked

(* Work goes with a folder, and comes from nowhere. *)
LEMMA OnlyLoses ==
  ASSUME DOMAIN work = Checkouts, NEW c, UNCHANGED inGit,
         UNCHANGED work \/ work' = [work EXCEPT ![c] = {}]
  PROVE  DOMAIN work' = Checkouts /\ \A x \in Asked : HeldIn(x)' \subseteq HeldIn(x)
BY PlacesApart DEF HeldIn

(* Steps that touch neither folders nor Git's records. *)
LEMMA BookStep ==
  ASSUME RepoInv,
         \/ \E c \in Linked : TakesWorktree(c)
         \/ LeavesMain \/ TakesMain \/ RefreshesRows \/ RefreshFails
  PROVE  RepoInv'
<1>0. /\ DOMAIN removing = RemovingFields /\ DOMAIN work = Checkouts
      /\ listed \subseteq Checkouts /\ rows \subseteq Checkouts
      /\ removing.at = "steps" => removing.todo \subseteq Linked
      /\ removing.at \in {"steps", "folder", "record", "main"} => "main" \in rows
      /\ "main" \in rows => "main" \in listed
      /\ "main" \notin Linked
  BY UnderwayFacts, PlacesApart
<1>1. /\ UNCHANGED <<answers, made, added, away, onDisk, work, inGit, listed>>
      /\ \A x \in Asked : HeldIn(x)' \subseteq HeldIn(x)
  BY DEF TakesWorktree, LeavesMain, TakesMain, RefreshesRows, RefreshFails, disks, HeldIn
<1>2. ASSUME NEW c \in Linked, TakesWorktree(c)
      PROVE  RepoInv'
  <2>1. /\ removing.at = "steps" /\ c \in removing.todo /\ UNCHANGED rows
        /\ removalLocks' = removalLocks \cup {c}
        /\ removing' = [removing EXCEPT !.now = c, !.todo = @ \ {c},
                          !.at = IF removing.views[c].missing THEN "record" ELSE "folder"]
    BY <1>2 DEF TakesWorktree
  <2>2. /\ DOMAIN removing' = RemovingFields /\ removing'.views = removing.views
        /\ removing'.takesMain = removing.takesMain /\ removing'.todo = removing.todo \ {c}
        /\ removing'.now = c /\ removing'.failed = removing.failed
        /\ removing'.at \in {"folder", "record"}
    BY <1>0, <2>1 DEF RemovingFields
  <2> QED BY <1>0, <1>1, <2>1, <2>2, RemovalFrame DEF Underway
<1>3. CASE LeavesMain
  <2>1. /\ removing.at = "steps" /\ UNCHANGED <<rows, removalLocks>>
        /\ removing' = [removing EXCEPT !.at = "refresh",
                          !.outcome = IF removing.failed THEN "stopped" ELSE "partial"]
    BY <1>3 DEF LeavesMain, StepsDone
  <2> QED BY <1>0, <1>1, <2>1, RemovalFrame DEF Underway, RemovingFields
<1>4. CASE TakesMain
  <2>1. /\ removing.at = "steps" /\ removing.todo = {} /\ UNCHANGED rows
        /\ removing.takesMain /\ ~ removing.failed
        /\ removalLocks' = removalLocks \cup {"main"}
        /\ removing' = [removing EXCEPT !.at = "main", !.now = "main"]
    BY <1>4 DEF TakesMain, StepsDone
  <2>2. /\ DOMAIN removing' = RemovingFields /\ removing'.views = removing.views
        /\ removing'.takesMain = removing.takesMain /\ removing'.todo = removing.todo
        /\ removing'.now = "main" /\ removing'.failed = removing.failed
        /\ removing'.at = "main"
    BY <1>0, <2>1 DEF RemovingFields
  <2> QED BY <1>0, <1>1, <2>1, <2>2, RemovalFrame DEF Underway
<1>5. CASE RefreshesRows
  <2>1. /\ removing.at = "refresh" /\ UNCHANGED removalLocks /\ rows' = listed
        /\ removing' = [removing EXCEPT !.at = "release"]
    BY <1>5 DEF RefreshesRows, Reaches
  <2> QED BY <1>0, <1>1, <2>1, RemovalFrame DEF Underway, RemovingFields
<1>6. CASE RefreshFails
  <2>1. /\ removing.at = "refresh" /\ UNCHANGED <<rows, removalLocks>>
        /\ removing' = [removing EXCEPT !.at = "release", !.failed = TRUE]
    BY <1>6 DEF RefreshFails
  <2> QED BY <1>0, <1>1, <2>1, RemovalFrame DEF Underway, RemovingFields
<1> QED BY <1>2, <1>3, <1>4, <1>5, <1>6

(* Steps on a linked worktree's folder and record. *)
LEMMA FolderStep ==
  ASSUME RepoInv, RemovesFolder \/ FolderFails \/ ForgetsRecord \/ RecordFails
  PROVE  RepoInv'
<1>0. /\ DOMAIN removing = RemovingFields /\ DOMAIN work = Checkouts
      /\ listed \subseteq Checkouts /\ rows \subseteq Checkouts
      /\ Underway => removing.now \in Linked /\ removing.now \in removalLocks
      /\ removing.at \in {"steps", "folder", "record", "main"} => "main" \in rows
      /\ "main" \in rows => "main" \in listed
      /\ "main" \notin Linked
  BY UnderwayFacts, PlacesApart
<1>1. Underway /\ UNCHANGED <<answers, made, added, away, inGit, rows, removalLocks>>
  BY DEF RemovesFolder, FolderFails, ForgetsRecord, RecordFails, Underway
<1>2. /\ UNCHANGED work \/ work' = [work EXCEPT ![removing.now] = {}]
      /\ onDisk \subseteq onDisk' \cup {removing.now}
  BY DEF RemovesFolder, FolderFails, ForgetsRecord, RecordFails, FolderGoes
<1>3. DOMAIN work' = Checkouts /\ \A x \in Asked : HeldIn(x)' \subseteq HeldIn(x)
  BY <1>0, <1>1, <1>2, OnlyLoses
<1>4. CASE RemovesFolder
  <2>1. removing.at = "folder" /\ removing' = [removing EXCEPT !.at = "record"] /\ UNCHANGED listed
    BY <1>4 DEF RemovesFolder, Reaches
  <2>2. /\ DOMAIN removing' = RemovingFields /\ removing'.views = removing.views
        /\ removing'.takesMain = removing.takesMain /\ removing'.todo = removing.todo
        /\ removing'.now = removing.now /\ removing'.failed = removing.failed
        /\ removing'.at = "record"
    BY <1>0, <2>1 DEF RemovingFields
  <2> QED BY <1>0, <1>1, <1>2, <1>3, <2>1, <2>2, RemovalFrame DEF Underway
<1>5. CASE FolderFails
  <2>1. /\ removing.at = "folder" /\ UNCHANGED <<listed, onDisk>>
        /\ removing' = [removing EXCEPT !.at = "steps", !.failed = TRUE]
    BY <1>5 DEF FolderFails, FailedStep
  <2>2. /\ DOMAIN removing' = RemovingFields /\ removing'.views = removing.views
        /\ removing'.takesMain = removing.takesMain /\ removing'.todo = removing.todo
        /\ removing'.failed /\ removing'.at = "steps"
    BY <1>0, <2>1 DEF RemovingFields
  <2> QED BY <1>0, <1>1, <1>2, <1>3, <2>1, <2>2, RemovalFrame DEF Underway
<1>6. CASE ForgetsRecord
  <2>1. /\ removing.at = "record" /\ removing' = [removing EXCEPT !.at = "steps"]
        /\ listed' = listed \ {removing.now}
    BY <1>6 DEF ForgetsRecord, Reaches
  <2>2. /\ DOMAIN removing' = RemovingFields /\ removing'.views = removing.views
        /\ removing'.takesMain = removing.takesMain /\ removing'.todo = removing.todo
        /\ removing'.failed = removing.failed /\ removing'.at = "steps"
    BY <1>0, <2>1 DEF RemovingFields
  <2>3. "main" \in listed'
    BY <1>0, <1>1, <2>1
  <2> QED BY <1>0, <1>1, <1>2, <1>3, <2>1, <2>2, <2>3, RemovalFrame DEF Underway
<1>7. CASE RecordFails
  <2>1. /\ removing.at = "record" /\ removing' = [removing EXCEPT !.at = "steps", !.failed = TRUE]
        /\ listed' \in {listed, listed \ {removing.now}}
    BY <1>7 DEF RecordFails, FailedStep
  <2>2. /\ DOMAIN removing' = RemovingFields /\ removing'.views = removing.views
        /\ removing'.takesMain = removing.takesMain /\ removing'.todo = removing.todo
        /\ removing'.failed /\ removing'.at = "steps"
    BY <1>0, <2>1 DEF RemovingFields
  <2>3. listed' \subseteq listed /\ "main" \in listed'
    BY <1>0, <1>1, <2>1
  <2> QED BY <1>0, <1>1, <1>2, <1>3, <2>1, <2>2, <2>3, RemovalFrame DEF Underway
<1> QED BY <1>4, <1>5, <1>6, <1>7

(* Steps on the main checkout. *)
LEMMA MainStep ==
  ASSUME RepoInv, RemovesMain \/ MainFails
  PROVE  RepoInv'
<1>0. /\ DOMAIN removing = RemovingFields /\ DOMAIN work = Checkouts
      /\ listed \subseteq Checkouts /\ rows \subseteq Checkouts
      /\ removing.at = "main" => "main" \in removalLocks /\ "main" \in rows
      /\ "main" \in rows => "main" \in listed
  BY UnderwayFacts
<1>1. removing.at = "main" /\ UNCHANGED <<answers, made, added, away, removalLocks>>
  BY DEF RemovesMain, MainFails
<1>2. /\ \/ UNCHANGED <<work, inGit>>
         \/ work' = [work EXCEPT !["main"] = {}] /\ inGit' = {}
      /\ onDisk \subseteq onDisk' \cup {"main"}
  BY DEF RemovesMain, MainFails
<1>3. DOMAIN work' = Checkouts /\ \A x \in Asked : HeldIn(x)' \subseteq HeldIn(x)
  BY <1>0, <1>2, PlacesApart DEF HeldIn
<1>4. /\ listed' \subseteq listed /\ rows' \subseteq rows /\ ("main" \in rows' => "main" \in listed')
      /\ DOMAIN removing' = RemovingFields /\ removing'.views = removing.views
      /\ removing'.takesMain = removing.takesMain /\ removing'.todo = removing.todo
      /\ removing'.at \in {"release", "refresh"}
  BY <1>0 DEF RemovesMain, MainFails, RemovingFields
<1> QED BY <1>0, <1>1, <1>2, <1>3, <1>4, RemovalFrame DEF Underway

(* What a look at a place finds. *)
LEMMA ViewFacts ==
  ASSUME made \in Nat, NEW x \in Asked
  PROVE  /\ ViewShape(ViewOf(x)) /\ ViewOf(x).seen
         /\ x \notin onDisk => x = ".git" \/ ViewOf(x).missing
         /\ x = ".git" \/ x \in onDisk => ViewOf(x).work = HeldIn(x)
         /\ x \in onDisk /\ x # ".git" => ~ ViewOf(x).missing
<1>1. CASE x = ".git"
  <2>1. ViewOf(x) = [NoView EXCEPT !.seen = TRUE, !.work = inGit, !.upTo = made]
    BY <1>1 DEF ViewOf
  <2>2. /\ DOMAIN ViewOf(x) = {"seen", "missing", "blocked", "unreadable", "work", "upTo"}
        /\ ViewOf(x).seen = TRUE /\ ViewOf(x).missing = FALSE /\ ViewOf(x).blocked = FALSE
        /\ ViewOf(x).work = inGit /\ ViewOf(x).upTo = made
    BY <2>1 DEF NoView
  <2>3. ViewShape(ViewOf(x))
    <3>1. ViewOf(x).upTo \in Nat /\ ViewOf(x).upTo <= made
      BY <2>2
    <3>2. /\ ViewOf(x).seen \in BOOLEAN /\ ViewOf(x).missing \in BOOLEAN
          /\ ViewOf(x).blocked \in BOOLEAN
      BY <2>2, Zenon
    <3> QED BY <2>2, <3>1, <3>2, Zenon DEF ViewShape
  <2>4. ViewOf(x).work = HeldIn(x)
    BY <1>1, <2>2 DEF HeldIn
  <2> QED BY <1>1, <2>2, <2>3, <2>4
<1>2. CASE x # ".git" /\ x \in onDisk
  <2>1. ViewOf(x) = [NoView EXCEPT !.seen = TRUE, !.missing = FALSE, !.blocked = x \in blocked,
                                   !.work = work[x], !.upTo = made]
    BY <1>2, Zenon DEF ViewOf
  <2>2. (x \in blocked) \in BOOLEAN
    OBVIOUS
  <2> DEFINE isBlocked == x \in blocked
  <2> HIDE DEF isBlocked
  <2>3. ViewOf(x) = [NoView EXCEPT !.seen = TRUE, !.missing = FALSE, !.blocked = isBlocked,
                                   !.work = work[x], !.upTo = made] /\ isBlocked \in BOOLEAN
    BY <2>1, <2>2 DEF isBlocked
  <2> QED BY <1>2, <2>3 DEF NoView, ViewShape, HeldIn
<1>3. CASE x # ".git" /\ x \notin onDisk
  <2>1. ViewOf(x) = [NoView EXCEPT !.seen = TRUE, !.missing = TRUE, !.blocked = x \in blocked,
                                   !.work = {}, !.upTo = made]
    BY <1>3 DEF ViewOf
  <2>2. (x \in blocked) \in BOOLEAN
    OBVIOUS
  <2> DEFINE isBlocked == x \in blocked
  <2> HIDE DEF isBlocked
  <2>3. ViewOf(x) = [NoView EXCEPT !.seen = TRUE, !.missing = TRUE, !.blocked = isBlocked,
                                   !.work = {}, !.upTo = made] /\ isBlocked \in BOOLEAN
    BY <2>1, <2>2 DEF isBlocked
  <2> QED BY <1>3, <2>3 DEF NoView, ViewShape, HeldIn
<1> QED BY <1>1, <1>2, <1>3

(* The dialog's answers, while no removal runs. *)
LEMMA DecidesStep ==
  ASSUME RepoInv, NEW x \in Asked, NEW choice, Decides(x, choice)
  PROVE  RepoInv'
<1>1. /\ removing.at = "idle"
      /\ UNCHANGED <<onDisk, away, listed, rows, work, inGit, removing, removalLocks, made, added>>
  BY DEF Decides, disks
<1>2. removing.todo = {} /\ ~ removing.takesMain
  BY <1>1 DEF RepoInv, MainStays
<1>3. /\ RepoShapes' /\ OnePlace' /\ FoundOrNewer' /\ MainStays' /\ ListedAreLookedAt'
      /\ TakenAreLocked'
  BY <1>1 DEF RepoInv, RepoShapes, ViewShape, OnePlace, FoundOrNewer, MainStays, TakenAreLocked,
     ListedAreLookedAt, HeldIn, Found, Underway
<1>4. OnlyGivenUp' /\ NoneLeft'
  BY <1>1, <1>2 DEF OnlyGivenUp, NoneLeft, Underway
<1> QED BY <1>3, <1>4 DEF RepoInv

(* The fresh review begins. *)
LEMMA AsksStep ==
  ASSUME RepoInv, AsksRepoRemoval
  PROVE  RepoInv'
<1>1. /\ "main" \in rows
      /\ UNCHANGED <<onDisk, away, listed, rows, work, inGit, removalLocks, made>>
      /\ removing' = [NotRemoving EXCEPT !.at = "inspect", !.todo = listed,
                                         !.views[".git"] = ViewOf(".git")]
  BY DEF AsksRepoRemoval
<1>2. made \in Nat /\ ".git" \in Asked
  BY PlacesApart DEF RepoInv, RepoShapes
<1>3. /\ DOMAIN removing' = RemovingFields /\ DOMAIN removing'.views = Asked
      /\ removing'.at = "inspect" /\ removing'.todo = listed /\ ~ removing'.takesMain
      /\ removing'.views[".git"] = ViewOf(".git")
      /\ \A x \in Checkouts : removing'.views[x] = NoView
  BY <1>1, <1>2, NoViewShape, PlacesApart DEF RemovingFields
<1>4. RepoShapes'
  <2>1. \A x \in Asked : ViewShape(removing'.views[x])
    BY <1>2, <1>3, NoViewShape, ViewFacts, PlacesApart
  <2>2. \A x \in Asked : ViewShape(removing.views[x])'
    BY <1>1, <2>1 DEF ViewShape
  <2> QED BY <1>1, <1>3, <2>2 DEF RepoInv, RepoShapes
<1>5. \A x \in Asked : removing'.views[x].seen <=> x = ".git"
  BY <1>2, <1>3, NoViewShape, ViewFacts, PlacesApart
<1>6. OnePlace'
  BY <1>1 DEF RepoInv, OnePlace, HeldIn
<1>7. FoundOrNewer'
  <2>1. ViewOf(".git").work = inGit
    BY DEF ViewOf, NoView
  <2> QED BY <1>1, <1>3, <1>5, <2>1 DEF FoundOrNewer, Found, HeldIn
<1>8. OnlyGivenUp' /\ NoneLeft'
  BY <1>3 DEF OnlyGivenUp, NoneLeft, Underway
<1>9. MainStays' /\ TakenAreLocked'
  BY <1>1, <1>2, <1>3, <1>5, PlacesApart DEF RepoInv, MainStays, TakenAreLocked, Underway
<1>10. ListedAreLookedAt'
  BY <1>1, <1>3 DEF RepoInv, RepoShapes, ListedAreLookedAt
<1> QED BY <1>4, <1>6, <1>7, <1>8, <1>9, <1>10 DEF RepoInv

(* One checkout is looked at. *)
LEMMA InspectsStep ==
  ASSUME RepoInv, NEW c \in Checkouts, Inspects(c)
  PROVE  RepoInv'
<1>1. /\ removing.at = "inspect" /\ c \in removing.todo
      /\ UNCHANGED <<onDisk, away, listed, rows, work, inGit, removalLocks, made, added>>
  BY DEF Inspects, disks
<1>2. PICK unreadable \in BOOLEAN :
        removing' = [removing EXCEPT !.todo = @ \ {c},
                       !.views[c] = [ViewOf(c) EXCEPT !.unreadable = unreadable]]
  BY DEF Inspects
<1>3. /\ made \in Nat /\ c \in Asked /\ c # ".git"
      /\ DOMAIN removing = RemovingFields /\ DOMAIN removing.views = Asked
  BY PlacesApart DEF RepoInv, RepoShapes
<1> DEFINE look == [ViewOf(c) EXCEPT !.unreadable = unreadable]
<1>4. /\ ViewShape(look) /\ look.seen /\ (c \notin onDisk => look.missing)
      /\ c \in onDisk => look.work = HeldIn(c)
  <2>1. /\ ViewShape(ViewOf(c)) /\ ViewOf(c).seen
        /\ c \notin onDisk => ViewOf(c).missing
        /\ c \in onDisk => ViewOf(c).work = HeldIn(c)
    BY <1>3, ViewFacts
  <2> QED BY <1>2, <2>1 DEF ViewShape
<1>5. /\ DOMAIN removing' = RemovingFields /\ DOMAIN removing'.views = Asked
      /\ removing'.at = "inspect" /\ removing'.todo = removing.todo \ {c}
      /\ removing'.takesMain = removing.takesMain
      /\ removing'.views[c] = look
      /\ \A x \in Asked : x # c => removing'.views[x] = removing.views[x]
  <2> HIDE DEF look
  <2>1. removing' = [removing EXCEPT !.todo = @ \ {c}, !.views[c] = look]
    BY <1>2 DEF look
  <2> QED BY <1>1, <1>3, <2>1 DEF RemovingFields
<1> HIDE DEF look
<1>6. RepoShapes'
  <2>1. \A x \in Asked : ViewShape(removing'.views[x])
    BY <1>4, <1>5 DEF RepoInv, RepoShapes
  <2>2. \A x \in Asked : ViewShape(removing.views[x])'
    BY <1>1, <2>1 DEF ViewShape
  <2> QED BY <1>1, <1>5, <2>2 DEF RepoInv, RepoShapes
<1>7. OnePlace'
  BY <1>1 DEF RepoInv, OnePlace, HeldIn
<1>8. FoundOrNewer'
  <2> SUFFICES ASSUME NEW x \in Asked, removing'.views[x].seen, NEW i \in HeldIn(x)
               PROVE  \/ i > removing'.views[x].upTo
                      \/ i \in removing'.views[x].work
                      \/ removing'.views[x].missing
    BY <1>1 DEF FoundOrNewer, Found, HeldIn
  <2>1. CASE x = c
    BY <1>4, <1>5, <2>1
  <2>2. CASE x # c
    BY <1>5, <2>2 DEF RepoInv, FoundOrNewer, Found
  <2> QED BY <2>1, <2>2
<1>9. OnlyGivenUp' /\ NoneLeft'
  <2>1. ~ removing.takesMain
    BY <1>1 DEF RepoInv, MainStays
  <2> QED BY <1>5, <2>1 DEF OnlyGivenUp, NoneLeft, Underway
<1>10. MainStays'
  BY <1>1, <1>3, <1>5, PlacesApart DEF RepoInv, MainStays
<1>11. TakenAreLocked'
  BY <1>1, <1>3, <1>4, <1>5, PlacesApart DEF RepoInv, TakenAreLocked, Underway
<1>12. ListedAreLookedAt'
  BY <1>1, <1>4, <1>5, PlacesApart DEF RepoInv, RepoShapes, ListedAreLookedAt
<1> QED BY <1>6, <1>7, <1>8, <1>9, <1>10, <1>11, <1>12 DEF RepoInv

(* The review, once complete, is judged by the answers. *)
LEMMA JudgesStep ==
  ASSUME RepoInv, Judges
  PROVE  RepoInv'
<1>1. /\ removing.at = "inspect" /\ removing.todo = {}
      /\ UNCHANGED <<onDisk, away, listed, rows, work, inGit, removalLocks, made, added, answers>>
  BY DEF Judges, disks
<1>2. /\ made \in Nat /\ DOMAIN removing = RemovingFields /\ DOMAIN removing.views = Asked
      /\ "main" \in rows /\ "main" \in listed /\ listed \subseteq Checkouts /\ removing.views[".git"].seen
  BY <1>1 DEF RepoInv, RepoShapes, MainStays
<1>3. CASE ~ Ready(removing.views)
  <2>1. removing' = NotRemoving
    BY <1>3 DEF Judges
  <2>2. /\ DOMAIN removing' = RemovingFields /\ DOMAIN removing'.views = Asked
        /\ \A x \in Asked : ViewShape(removing'.views[x]) /\ ~ removing'.views[x].seen
        /\ removing'.at = "idle" /\ removing'.todo = {} /\ ~ removing'.takesMain
    BY <1>2, <2>1, NoViewShape
  <2>3. RepoShapes'
    <3>1. \A x \in Asked : ViewShape(removing.views[x])'
      BY <1>1, <2>2 DEF ViewShape
    <3> QED BY <1>1, <2>2, <3>1 DEF RepoInv, RepoShapes
  <2>4. OnePlace' /\ FoundOrNewer'
    BY <1>1, <2>2 DEF RepoInv, OnePlace, FoundOrNewer, HeldIn, Found
  <2>5. OnlyGivenUp' /\ NoneLeft'
    BY <2>2 DEF OnlyGivenUp, NoneLeft, Underway
  <2>6. MainStays' /\ ListedAreLookedAt' /\ TakenAreLocked'
    BY <1>1, <2>2 DEF RepoInv, MainStays, ListedAreLookedAt, TakenAreLocked, Underway
  <2> QED BY <2>3, <2>4, <2>5, <2>6 DEF RepoInv
<1>4. CASE Ready(removing.views)
  <2>1. removing' = [removing EXCEPT !.at = "steps", !.todo = Removes(removing.views),
                                     !.takesMain = ~ Keeps(removing.views)]
    BY <1>4 DEF Judges
  <2>2. /\ DOMAIN removing' = RemovingFields /\ removing'.views = removing.views
        /\ removing'.at = "steps" /\ removing'.todo = Removes(removing.views)
        /\ removing'.takesMain = ~ Keeps(removing.views)
    BY <1>2, <2>1 DEF RemovingFields
  <2>3. RepoShapes' /\ OnePlace' /\ FoundOrNewer'
    BY <1>1, <2>2 DEF RepoInv, RepoShapes, ViewShape, OnePlace, FoundOrNewer, HeldIn, Found
  <2>4. \A x \in Found(removing.views) \cap Linked : x \in Removes(removing.views) => GivenUp(x)
    BY DEF Removes, GivenUp, Found
  <2>5. \A x : Choice(removing.views, x) \in {"none", "keep", "discard"}
    BY DEF Choice, MayAnswer
  <2>6. ~ Keeps(removing.views) =>
          /\ \A x \in Found(removing.views) : Choice(removing.views, x) # "keep" /\ GivenUp(x)
          /\ Found(removing.views) \cap Linked = Removes(removing.views)
    BY <1>4, <2>5 DEF Keeps, Ready, GivenUp, Removes, Found
  <2>7. /\ {"main", ".git"} \subseteq Found(removing.views)
        /\ listed \subseteq Found(removing.views) \cup (Linked \cap added)
    BY <1>1, <1>2, PlacesApart DEF RepoInv, ListedAreLookedAt, Found
  <2>8. \A x : /\ GivenUp(x)' <=> GivenUp(x)
               /\ Choice(removing.views, x)' = Choice(removing.views, x)
    BY <1>1, <2>2 DEF GivenUp, Choice
  <2>9. OnlyGivenUp'
    <3>1. removing'.todo \subseteq Linked /\ \A x \in removing'.todo : GivenUp(x)'
      BY <2>2, <2>4, <2>8 DEF Removes
    <3>2. removing'.takesMain => /\ GivenUp("main")' /\ GivenUp(".git")'
                                 /\ \A x \in Found(removing.views)' : Choice(removing.views, x)' # "keep"
      BY <2>2, <2>6, <2>7, <2>8 DEF Found
    <3> QED BY <2>2, <3>1, <3>2 DEF OnlyGivenUp, Underway
  <2>10. NoneLeft'
    BY <1>1, <2>2, <2>6, <2>7 DEF NoneLeft, Underway
  <2>11. MainStays' /\ ListedAreLookedAt' /\ TakenAreLocked'
    BY <1>1, <1>2, <2>2 DEF RepoInv, MainStays, ListedAreLookedAt, TakenAreLocked, Underway
  <2> QED BY <2>3, <2>9, <2>10, <2>11 DEF RepoInv
<1> QED BY <1>3, <1>4

(* The removal ends. *)
LEMMA ReleasesStep ==
  ASSUME RepoInv, ReleasesAll
  PROVE  RepoInv'
<1>1. /\ removing' = NotRemoving
      /\ UNCHANGED <<onDisk, away, listed, rows, work, inGit, made, added, answers>>
  BY DEF ReleasesAll, disks
<1>2. made \in Nat
  BY DEF RepoInv, RepoShapes
<1>3. /\ DOMAIN removing' = RemovingFields /\ DOMAIN removing'.views = Asked
      /\ \A x \in Asked : ViewShape(removing'.views[x]) /\ ~ removing'.views[x].seen
      /\ removing'.at = "idle" /\ removing'.todo = {} /\ ~ removing'.takesMain
  BY <1>1, <1>2, NoViewShape
<1>4. RepoShapes'
  <2>1. \A x \in Asked : ViewShape(removing.views[x])'
    BY <1>1, <1>3 DEF ViewShape
  <2> QED BY <1>1, <1>3, <2>1 DEF RepoInv, RepoShapes
<1>5. OnePlace' /\ FoundOrNewer'
  BY <1>1, <1>3 DEF RepoInv, OnePlace, FoundOrNewer, HeldIn, Found
<1>6. OnlyGivenUp' /\ NoneLeft'
  BY <1>3 DEF OnlyGivenUp, NoneLeft, Underway
<1>7. MainStays' /\ ListedAreLookedAt' /\ TakenAreLocked'
  BY <1>1, <1>3 DEF RepoInv, MainStays, ListedAreLookedAt, TakenAreLocked, Underway
<1> QED BY <1>4, <1>5, <1>6, <1>7 DEF RepoInv

(* Every step keeps the invariant. *)
LEMMA RepoInvNext == RepoInv /\ [RemovalNext]_removalVars => RepoInv'
<1> SUFFICES ASSUME RepoInv, [RemovalNext]_removalVars
             PROVE  RepoInv'
  OBVIOUS
<1>1. CASE UNCHANGED removalVars
  BY <1>1 DEF removalVars, RepoInv, RepoShapes, ViewShape, OnePlace, FoundOrNewer, OnlyGivenUp,
     GivenUp, Choice, NoneLeft, MainStays, ListedAreLookedAt, TakenAreLocked, Underway, HeldIn, Found
<1>2. ASSUME NEW x \in Asked, NEW choice \in {"keep", "discard"}, Decides(x, choice)
      PROVE  RepoInv'
  BY <1>2, DecidesStep
<1>3. CASE AsksRepoRemoval
  BY <1>3, AsksStep
<1>4. CASE RepoRemovalStep
  BY <1>4, JudgesStep, FolderStep, BookStep, MainStep, ReleasesStep, InspectsStep DEF RepoRemovalStep
<1>5. CASE \/ \E x \in Asked : AgentWorks(x)
           \/ \E c \in Checkouts : AgentPublishes(c) \/ AgentBlocks(c)
           \/ \E c \in Linked : VolumeComesOrGoes(c) \/ AgentAddsWorktree(c)
  BY <1>5, AgentStep
<1> QED BY <1>1, <1>2, <1>3, <1>4, <1>5 DEF RemovalNext

(* "Keep probes blocked until the refresh below has dropped the row". *)
THEOREM ProbesKeptFromTheGone == RemovalSpec => []ProbesStayOut
<1>1. RemovalInit => RepoInv
  BY RepoInvInit
<1>2. RepoInv /\ [RemovalNext]_removalVars => RepoInv'
  BY RepoInvNext
<1>3. RepoInv => ProbesStayOut
  BY DEF RepoInv, RepoShapes, TakenAreLocked, ProbesStayOut
<1> QED BY <1>1, <1>2, <1>3, PTL DEF RemovalSpec

(* A piece of work is in one place. *)
LEMMA PlaceIsOne ==
  ASSUME RepoInv, NEW x \in Asked, NEW i \in HeldIn(x)
  PROVE  PlaceOf(i) = x
<1>1. \A y \in Asked : i \in HeldIn(y) => y = x
  BY DEF RepoInv, OnePlace
<1>2. \A y \in Asked : i \in (IF y = ".git" THEN inGit ELSE work[y]) <=> y = x
  BY <1>1 DEF HeldIn
<1> QED BY <1>2 DEF PlaceOf

(* What goes from a place that was given up went by its answer, or was new. *)
LEMMA GivenUpGoes ==
  ASSUME RepoInv, NEW x \in Asked, GivenUp(x), NEW i \in HeldIn(x)
  PROVE  LET view == removing.views[PlaceOf(i)] IN
           \/ i > view.upTo
           \/ Verdict(view) = "at_risk" /\ answers[PlaceOf(i)] = "discard"
<1>1. PlaceOf(i) = x
  BY PlaceIsOne
<1>2. \/ i > removing.views[x].upTo
      \/ i \in removing.views[x].work
      \/ removing.views[x].missing
  BY DEF RepoInv, FoundOrNewer, Found, GivenUp
<1>3. CASE Verdict(removing.views[x]) = "safe"
  BY <1>1, <1>2, <1>3 DEF Verdict
<1>4. CASE Choice(removing.views, x) = "discard"
  BY <1>1, <1>4 DEF Choice, MayAnswer, Verdict
<1> QED BY <1>3, <1>4 DEF GivenUp

(* RemovedAsAnswered, of one step. *)
GoesAsAnswered ==
  /\ \A i \in lost' \ lost :
       LET view == removing.views[PlaceOf(i)] IN
         \/ i > view.upTo
         \/ Verdict(view) = "at_risk" /\ answers[PlaceOf(i)] = "discard"
  /\ onDisk \ onDisk' = {"main"} =>
       /\ \A x \in Found(removing.views) : Choice(removing.views, x) # "keep"
       /\ Linked \cap listed \subseteq added

(* What can go with a linked worktree is of that worktree. *)
LEMMA FolderGoesAsAnswered ==
  ASSUME RepoInv, RemovesFolder \/ FolderFails \/ ForgetsRecord \/ RecordFails
  PROVE  GoesAsAnswered
<1>1. /\ removing.now \in Linked /\ GivenUp(removing.now)
      /\ removing.now \in Asked /\ removing.now # ".git" /\ removing.now # "main"
  BY PlacesApart DEF RemovesFolder, FolderFails, ForgetsRecord, RecordFails, RepoInv, OnlyGivenUp,
     Underway
<1>2. lost' \ lost \subseteq work[removing.now] /\ onDisk \ onDisk' \subseteq {removing.now}
  BY DEF RemovesFolder, FolderFails, ForgetsRecord, RecordFails, FolderGoes
<1>3. lost' \ lost \subseteq HeldIn(removing.now)
  BY <1>1, <1>2 DEF HeldIn
<1> QED BY <1>1, <1>2, <1>3, GivenUpGoes DEF GoesAsAnswered

(* What can go with the main checkout is of it or of its .git. *)
LEMMA MainGoesAsAnswered ==
  ASSUME RepoInv, RemovesMain \/ MainFails
  PROVE  GoesAsAnswered
<1>1. /\ GivenUp("main") /\ GivenUp(".git") /\ "main" \in Asked /\ ".git" \in Asked
      /\ \A x \in Found(removing.views) : Choice(removing.views, x) # "keep"
      /\ removing.at = "main" /\ removing.takesMain /\ ~ removing.failed /\ removing.todo = {}
  BY PlacesApart DEF RemovesMain, MainFails, RepoInv, OnlyGivenUp
<1>2. Linked \cap listed \subseteq added
  BY <1>1 DEF RepoInv, NoneLeft, Underway
<1>3. lost' \ lost \subseteq HeldIn("main") \cup HeldIn(".git")
  BY DEF RemovesMain, MainFails, HeldIn
<1> QED BY <1>1, <1>2, <1>3, GivenUpGoes DEF GoesAsAnswered

(* No other step takes work, or the main checkout. *)
LEMMA NextGoesAsAnswered ==
  ASSUME RepoInv, [RemovalNext]_removalVars
  PROVE  [GoesAsAnswered]_removalVars
<1>1. CASE RemovesFolder \/ FolderFails \/ ForgetsRecord \/ RecordFails
  BY <1>1, FolderGoesAsAnswered
<1>2. CASE RemovesMain \/ MainFails
  BY <1>2, MainGoesAsAnswered
<1>3. ASSUME UNCHANGED lost, "main" \in onDisk => "main" \in onDisk'
      PROVE  GoesAsAnswered
  BY <1>3 DEF GoesAsAnswered
<1>4. ASSUME NEW x \in Asked, NEW choice \in {"keep", "discard"}, Decides(x, choice)
      PROVE  GoesAsAnswered
  BY <1>3, <1>4 DEF Decides, disks
<1>5. CASE AsksRepoRemoval \/ Judges \/ LeavesMain \/ TakesMain \/ RefreshesRows
           \/ RefreshFails \/ ReleasesAll
  BY <1>3, <1>5 DEF AsksRepoRemoval, Judges, LeavesMain, TakesMain, RefreshesRows,
     RefreshFails, ReleasesAll, disks
<1>6. CASE \/ \E c \in Checkouts : Inspects(c)
           \/ \E c \in Linked : TakesWorktree(c)
  BY <1>3, <1>6 DEF Inspects, TakesWorktree, disks
<1>7. ASSUME NEW c \in Linked, VolumeComesOrGoes(c) \/ AgentAddsWorktree(c)
      PROVE  GoesAsAnswered
  BY <1>3, <1>7, PlacesApart DEF VolumeComesOrGoes, AgentAddsWorktree, Meanwhile
<1>8. CASE \/ \E x \in Asked : AgentWorks(x)
           \/ \E c \in Checkouts : AgentPublishes(c) \/ AgentBlocks(c)
  BY <1>3, <1>8 DEF AgentWorks, AgentPublishes, AgentBlocks, Meanwhile
<1> QED BY <1>1, <1>2, <1>4, <1>5, <1>6, <1>7, <1>8 DEF RemovalNext, RepoRemovalStep

(* What goes was given up or is newer than the review, and the main checkout goes   *)
(* last, when nothing is kept and no worktree that the review listed is left.     *)
THEOREM OnlyTheAnsweredGoes == RemovalSpec => RemovedAsAnswered
<1>1. RemovalInit => RepoInv
  BY RepoInvInit
<1>2. RepoInv /\ [RemovalNext]_removalVars => RepoInv'
  BY RepoInvNext
<1>3. RepoInv /\ [RemovalNext]_removalVars => [GoesAsAnswered]_removalVars
  BY NextGoesAsAnswered
<1>4. RemovedAsAnswered <=> [][GoesAsAnswered]_removalVars
  BY PTL DEF RemovedAsAnswered, GoesAsAnswered
<1> QED BY <1>1, <1>2, <1>3, <1>4, PTL DEF RemovalSpec
=============================================================================
