---------------------------- MODULE MCRepoFiles -----------------------------
(***************************************************************************)
(* Small clones for RepoFiles.                                             *)
(***************************************************************************)
EXTENDS RepoFiles

CONSTANTS MaxEntries, MaxSpecs, MaxBody

\* What may follow a tree in the order of the walk.
MayFollow(t, entry) ==
    IF t = << >> THEN entry.depth = 1
    ELSE LET last == t[Len(t)]
         IN entry.depth <= last.depth + (IF last.kind \in {"dir", "skip"} THEN 1 ELSE 0)

Entries == [depth : 1..MaxEntries, kind : Kinds]

TreesOf[n \in 0..MaxEntries] ==
    IF n = 0 THEN {<< >>}
    ELSE LET shorter == TreesOf[n - 1]
         IN {Append(t, e) : <<t, e>> \in {p \in shorter \X Entries : MayFollow(p[1], p[2])}}

MCTrees == TreesOf[MaxEntries]

\* gofmt'ed files: import declarations, each a line or a block, and a body.
Line(text, part) == [text |-> text, part |-> part]

Single == <<Line("single", "spec")>>

Blocks == {<<Line("open", "other")>> \o specs \o <<Line("close", "other")>> :
             specs \in BoundedSeq({Line("text", "spec"), Line("blank", "other")}, MaxSpecs)}

Imports == {FlattenSeq(decls) : decls \in BoundedSeq({Single} \cup Blocks, 2)}

Bodies == BoundedSeq({Line(t, "other") : t \in {"text", "blank", "close"}}, MaxBody)

MCSources == {imports \o body : imports \in Imports, body \in Bodies}

MCAudiences == SUBSET DocTypes

=============================================================================
