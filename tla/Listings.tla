------------------------------ MODULE Listings ------------------------------
(***************************************************************************)
(* What callers are given of collections that come in parts: the file tree *)
(* of a repository (ReadTree) and the files of a pull request (GetPRFiles) *)
(* of internal/git/github.go, and the stored supergroups, of which both    *)
(* vector store backends list one page.                                    *)
(***************************************************************************)
EXTENDS Integers, Sequences, FiniteSets, SequencesExt

CONSTANTS Names,          \* the names in a repository
          DefaultLimit,   \* the page size of supergroups (50 in the code)
          Absent,         \* an optional parameter that a request leaves out
          Fails,          \* an error instead of an answer
          Panics          \* the handler panics: the connection is dropped unanswered

ASSUME NamesAssumption == IsFiniteSet(Names)
ASSUME DefaultLimitAssumption == DefaultLimit \in Nat \ {0}
ASSUME FailuresAssumption == Fails # Panics

\* At most limit elements, after the first offset ones.
Slice(s, offset, limit) == SubSeq(s, offset + 1, Min({offset + limit, Len(s)}))

-----------------------------------------------------------------------------
\* The host.  A repository is the set of its paths, sequences of names; a
\* path with others below it is a directory, listed in some order.
Child(tree, dir) == SetToSeq({Append(dir, n) : n \in Names} \cap tree)
Depth(tree) == Max({0} \cup {Len(p) : p \in tree})
\* An entry names its object (sha) and the path it is listed under.
Entry(tree, sha, path) == [sha |-> sha, path |-> path, isTree |-> Child(tree, sha) # <<>>]
Files(tree) == {p \in tree : Child(tree, p) = <<>>}

\* GET git/trees/<ref>?recursive=1: everything, depth first, by full path ...
Deeper(tree, below) ==
  [d \in tree \cup {<<>>} |->
    FlattenSeq([i \in 1..Len(Child(tree, d)) |->
      LET p == Child(tree, d)[i] IN <<Entry(tree, p, p)>> \o below[p]])]
Everything(tree) ==
  LET Below[k \in 0 .. Depth(tree)] ==
        IF k = 0 THEN [d \in tree \cup {<<>>} |-> <<>>] ELSE Deeper(tree, Below[k - 1])
  IN Below[Depth(tree)][<<>>]
\* ... but no more than the host's limit.
Root(tree, limit) ==
  [truncated |-> limit < Len(Everything(tree)), entries |-> Slice(Everything(tree), 0, limit)]
\* GET git/trees/<sha>: the children, each under its bare name.
Subtree(tree, sha) ==
  [i \in 1..Len(Child(tree, sha)) |->
    LET p == Child(tree, sha)[i] IN Entry(tree, p, <<Last(p)>>)]

Trees(entries) ==
  FlattenSeq([i \in 1..Len(entries) |-> IF entries[i].isTree THEN <<entries[i]>> ELSE <<>>])

Listed(tree, trees) == FlattenSeq([i \in 1..Len(trees) |-> Subtree(tree, trees[i].sha)])

\* Mutant of Walk: the trees found on the way are not walked in turn.
WalkOnce(tree, pending) == Listed(tree, pending)
\* ReadTree's second loop: the pending trees are listed in turn, those found
\* on the way after them.
Walk(tree, pending) ==
  LET Round[k \in 0 .. Depth(tree)] ==
        IF k = 0 THEN pending ELSE Trees(Listed(tree, Round[k - 1]))
  IN FlattenSeq([k \in 1 .. Depth(tree) + 1 |-> Listed(tree, Round[k - 1])])

\* The recursive listing, completed when the host has truncated it.
ReadTree(tree, limit) ==
  LET root == Root(tree, limit)
  IN root.entries \o IF root.truncated THEN Walk(tree, Trees(root.entries)) ELSE <<>>

-----------------------------------------------------------------------------
\* One page of a pull request's files, and whether a next one is named.
Page(files, perPage, page) ==
  [batch |-> Slice(files, perPage * (page - 1), perPage), next |-> perPage * page < Len(files)]

\* Pages are read until one names no next, but no more than maxPages.
GetPRFiles(files, perPage, maxPages) ==
  LET From[page \in 1 .. maxPages] ==
        LET got == Page(files, perPage, page)
        IN got.batch \o IF got.next /\ page < maxPages THEN From[page + 1] ELSE <<>>
  IN From[1]

-----------------------------------------------------------------------------
\* similarity.ListSupergroups: the parameters a request may leave out.
Offset(given) == IF given = Absent THEN 0 ELSE given
Limit(given) == IF given = Absent THEN DefaultLimit ELSE given

\* db.ListSupergroups reads every row of the organization, whatever its
\* project, and pages in memory: a negative offset is out of a slice's bounds
\* and panics, and a limit of zero or less is no limit.
ListSQLite(rows, projects, offset, limit) ==
  CASE offset > Len(rows) -> <<>>
    [] offset < 0 -> Panics
    [] OTHER -> Slice(Reverse(rows), offset, IF limit > 0 THEN limit ELSE Len(rows))

\* The rows of the projects asked for; a request may name none.
Asked(projects, row) == projects = {} \/ row.project \in projects
OfProjects(rows, projects) ==
  FlattenSeq([i \in 1..Len(rows) |-> IF Asked(projects, rows[i]) THEN <<rows[i]>> ELSE <<>>])

\* pgvector pages in SQL among the projects asked for; a negative offset is
\* an error of the database.
ListPG(rows, projects, offset, limit) ==
  IF offset < 0 THEN Fails
  ELSE Slice(OfProjects(Reverse(rows), projects), offset, IF limit <= 0 THEN DefaultLimit ELSE limit)
=============================================================================
