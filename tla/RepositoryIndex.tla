---------------------------- MODULE RepositoryIndex ------------------------------
(***************************************************************************)
(* The index of a checked-out repository (repository_index.go) and the      *)
(* answers given from it without a model.  A request looks at the version  *)
(* of the repository before it takes the lock, and reads the files under   *)
(* it; meanwhile the checkout changes, file by file.                       *)
(***************************************************************************)
EXTENDS Integers, FiniteSets

CONSTANTS
  Files, Lookups,
  MaxRevision, MaxCommit,   \* bounds on the changes of the checkout
  repositoryIndexMaxFiles,
  Names(_, _, _),           \* the symbols, those defined again, the routes or the mounts
                            \* that a revision of a file declares
  Questions                 \* [words, terms, named]: what is asked for, and the files named so

ASSUME IndexAssumption ==
  /\ MaxRevision \in Nat /\ MaxCommit \in Nat
  /\ "none" \notin Files /\ "nobody" \notin Lookups

(* revision[f] is 0 while there is no such file; a file that is removed and *)
(* written again has another modification time, hence another revision.    *)
VARIABLES revision, present, commit, at, asked, label, walked, listed, lock, index, read, cache, reply

repositoryVars == <<revision, present, commit>>
lookupVars == <<at, asked, label, walked, listed, lock, index, read, cache, reply>>
indexVars == <<revision, present, commit, at, asked, label, walked, listed, lock, index, read, cache, reply>>

Nobody == "nobody"
NoFile == "none"
Nothing == [f \in Files |-> 0]
NoCache == [full |-> FALSE, label |-> 0, listed |-> Nothing, index |-> Nothing]

Places == {"idle", "listing", "waiting", "building", "answered", "given_up"}

IndexInit ==
  /\ revision = [f \in Files |-> 1] /\ present = Files /\ commit = 0
  /\ at = [r \in Lookups |-> "idle"] /\ asked \in [Lookups -> Questions]
  /\ label = [r \in Lookups |-> 0] /\ walked = [r \in Lookups |-> {}]
  /\ listed = [r \in Lookups |-> Nothing]
  /\ lock = Nobody /\ index = Nothing /\ read = {} /\ cache = NoCache
  /\ reply = [r \in Lookups |-> NoFile]

(* The checkout: an edit or a step of a pull, and the new commit after it. *)
WriteFile ==
  /\ \E f \in Files :
       /\ revision[f] < MaxRevision
       /\ revision' = [revision EXCEPT ![f] = @ + 1] /\ present' = present \cup {f}
  /\ UNCHANGED commit /\ UNCHANGED lookupVars

RemoveFile ==
  /\ \E f \in present : present' = present \ {f}
  /\ UNCHANGED <<revision, commit>> /\ UNCHANGED lookupVars

MoveCommit ==
  /\ commit < MaxCommit /\ commit' = commit + 1
  /\ UNCHANGED <<revision, present>> /\ UNCHANGED lookupVars

(* repositoryVersion: the commit, then the metadata of each source file.   *)
ReadCommit(r) ==
  /\ at[r] = "idle"
  /\ at' = [at EXCEPT ![r] = "listing"] /\ label' = [label EXCEPT ![r] = commit]
  /\ UNCHANGED <<asked, walked, listed, lock, index, read, cache, reply>> /\ UNCHANGED repositoryVars

(* A file that cannot be looked at, or comes after its directory was read,  *)
(* is passed over; so are those beyond the limit.                          *)
ListFile(r) ==
  /\ at[r] = "listing" /\ Cardinality({f \in Files : listed[r][f] # 0}) < repositoryIndexMaxFiles
  /\ \E f \in present \ walked[r] :
       /\ walked' = [walked EXCEPT ![r] = @ \cup {f}]
       /\ \/ listed' = [listed EXCEPT ![r][f] = revision[f]]
          \/ UNCHANGED listed
  /\ UNCHANGED <<at, asked, label, lock, index, read, cache, reply>> /\ UNCHANGED repositoryVars

ListedAll(r) ==
  /\ at[r] = "listing"
  /\ \/ present \subseteq walked[r]
     \/ Cardinality({f \in Files : listed[r][f] # 0}) >= repositoryIndexMaxFiles
  /\ at' = [at EXCEPT ![r] = "waiting"]
  /\ UNCHANGED <<asked, label, walked, listed, lock, index, read, cache, reply>>
  /\ UNCHANGED repositoryVars

(* There is no repository, a directory cannot be read, or the request is    *)
(* cancelled while it builds.                                              *)
GiveUp(r) ==
  /\ at[r] \in {"idle", "listing", "building"}
  /\ at' = [at EXCEPT ![r] = "given_up"] /\ lock' = IF lock = r THEN Nobody ELSE lock
  /\ UNCHANGED <<asked, label, walked, listed, index, read, cache, reply>> /\ UNCHANGED repositoryVars
--------------------------------------------------------------------------------
Indexed(i) == {f \in Files : i[f] # 0}
Declared(kind, i, f) == Names(kind, f, i[f])

(* lookupRepositorySymbol: the file of the one definition of a name of the  *)
(* question; of several, in one file or in more, none is chosen.           *)
lookupRepositorySymbol(i, q) ==
  LET Defined(f) == Declared("symbol", i, f) \cap q.terms
      hits == {f \in Indexed(i) : Defined(f) # {}}
      Once(f) == Cardinality(Defined(f)) = 1 /\ Defined(f) \cap Declared("again", i, f) = {}
  IN IF Cardinality(hits) = 1 /\ \A f \in hits : Once(f) THEN CHOOSE f \in hits : TRUE ELSE NoFile

(* lookupRepositoryRoute: the file that covers most terms; between equals,  *)
(* the one whose name they make up.  It may be mounted once only.          *)
lookupRepositoryRoute(i, q) ==
  LET Covered(f) == Declared("route", i, f) \cap q.terms
      More(f, g) == Cardinality(Covered(f)) > Cardinality(Covered(g))
      Above(f, g) == More(f, g) \/ (~More(g, f) /\ f \in q.named /\ g \notin q.named)
      best == {f \in Indexed(i) : /\ Covered(f) # {}
                                  /\ \A g \in Indexed(i) \ {f} : Above(f, g)
                                  /\ Cardinality({m \in Indexed(i) : f \in Declared("mount", i, m)}) <= 1}
  IN IF best = {} THEN NoFile ELSE CHOOSE f \in best : TRUE

lookupRepositoryIndex(i, q) ==
  LET symbol == IF "symbol" \in q.words THEN lookupRepositorySymbol(i, q) ELSE NoFile
  IN IF symbol # NoFile THEN symbol
     ELSE IF "route" \in q.words THEN lookupRepositoryRoute(i, q) ELSE NoFile

(* Mutant: an index is good for as long as the commit does not move. *)
SameCommit(r) == cache.full /\ cache.label = label[r]

SameVersion(r) == cache.full /\ cache.label = label[r] /\ cache.listed = listed[r]

AnswerFrom(r, i) ==
  /\ at' = [at EXCEPT ![r] = "answered"]
  /\ reply' = [reply EXCEPT ![r] = lookupRepositoryIndex(i, asked[r])]

(* repositoryIndex, under the lock.                                        *)
Hit(r) ==
  /\ at[r] = "waiting" /\ lock = Nobody /\ SameVersion(r)
  /\ AnswerFrom(r, cache.index)
  /\ UNCHANGED <<asked, label, walked, listed, lock, index, read, cache>> /\ UNCHANGED repositoryVars

StartBuild(r) ==
  /\ at[r] = "waiting" /\ lock = Nobody /\ ~SameVersion(r)
  /\ at' = [at EXCEPT ![r] = "building"] /\ lock' = r /\ index' = Nothing /\ read' = {}
  /\ UNCHANGED <<asked, label, walked, listed, cache, reply>> /\ UNCHANGED repositoryVars

(* buildRepositoryIndex: what cannot be read, or is gone, is left out.     *)
ReadFile(r) ==
  /\ at[r] = "building"
  /\ \E f \in Files \ read :
       /\ listed[r][f] # 0 /\ read' = read \cup {f}
       /\ \/ f \in present /\ index' = [index EXCEPT ![f] = revision[f]]
          \/ UNCHANGED index
  /\ UNCHANGED <<at, asked, label, walked, listed, lock, cache, reply>> /\ UNCHANGED repositoryVars

FinishBuild(r) ==
  /\ at[r] = "building" /\ \A f \in Files : listed[r][f] # 0 => f \in read
  /\ cache' = [full |-> TRUE, label |-> label[r], listed |-> listed[r], index |-> index]
  /\ AnswerFrom(r, index) /\ lock' = Nobody
  /\ UNCHANGED <<asked, label, walked, listed, index, read>> /\ UNCHANGED repositoryVars

IndexNext ==
  \/ WriteFile \/ RemoveFile \/ MoveCommit
  \/ \E r \in Lookups : \/ ReadCommit(r) \/ ListFile(r) \/ ListedAll(r) \/ GiveUp(r)
                        \/ Hit(r) \/ StartBuild(r) \/ ReadFile(r) \/ FinishBuild(r)

IndexSpec == IndexInit /\ [][IndexNext]_indexVars
--------------------------------------------------------------------------------
(* An answer names a file that declared what the question asks about at    *)
(* some time since the request looked at the repository, whoever built the *)
(* index, whichever pull came in between and whichever request replaced    *)
(* the cached one (repository_index.go:100).                               *)
AnswersAreNoOlder ==
  \A r \in Lookups : at[r] = "answered" /\ reply[r] # NoFile =>
    /\ listed[r][reply[r]] # 0
    /\ \E n \in listed[r][reply[r]]..revision[reply[r]], kind \in {"symbol", "route"} :
         Names(kind, reply[r], n) \cap asked[r].terms # {}
================================================================================
