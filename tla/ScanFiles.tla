----------------------------- MODULE ScanFiles ------------------------------
(***************************************************************************)
(* ScanFiles: the walk over a clone.  A tree is the sequence of its        *)
(* entries in the order of filepath.WalkDir (each directory before what is *)
(* in it, names in lexical order); an entry has a depth and a kind:        *)
(*   "file"   a file worth reading                                         *)
(*   "noise"  one that shouldSkipFile names (lock files, images, .pb.go)   *)
(*   "dir"    a directory                                                  *)
(*   "skip"   .git, vendor or node_modules                                 *)
(*   "bad"    a directory that cannot be read                              *)
(***************************************************************************)
EXTENDS Naturals, Sequences

Kinds == {"file", "noise", "dir", "skip", "bad"}

\* Entry i of the tree is somewhere below entry k.
Below(tree, k, i) == k < i /\ \A m \in (k + 1)..i : tree[m].depth > tree[k].depth

\* What the walk has when it starts: the entries it has collected, the depth of
\* the directory whose contents it skips (0: none), and whether it is over.
StartWalk == [results |-> << >>, skip |-> 0, end |-> "no"]

\* Mutant of Full: one file too many is collected.
FullTooLate(results, maxFiles) == Len(results) > maxFiles

\* if len(results) >= maxFiles
Full(results, maxFiles) == Len(results) >= maxFiles

\* The callback on entry i.  WalkDir calls it a second time, with the error, on
\* a directory that it cannot read; and not at all on what is in a directory
\* for which the callback has returned SkipDir.
Visit(tree, maxFiles, walk, i) ==
    LET entry == tree[i]
        results == IF entry.kind = "file" THEN Append(walk.results, i)
                                          ELSE walk.results
    IN IF walk.end # "no" \/ (walk.skip # 0 /\ entry.depth > walk.skip)
       THEN walk
       ELSE [results |-> results,
             skip |-> IF entry.kind = "skip" THEN entry.depth ELSE 0,
             end |-> CASE entry.kind = "bad" -> "error"
                       [] entry.kind = "file" /\ Full(results, maxFiles) -> "full"
                       [] OTHER -> "no"]

\* ScanFiles returns the results, unless the walk has ended with an error.
Walk(tree, maxFiles) ==
    LET after[i \in 0..Len(tree)] ==
          IF i = 0 THEN StartWalk ELSE Visit(tree, maxFiles, after[i - 1], i)
    IN after[Len(tree)]

=============================================================================
