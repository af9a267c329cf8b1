----------------------------- MODULE RepoFiles ------------------------------
(***************************************************************************)
(* What processJob does with the files of a clone: ScanFiles lists them,   *)
(* ParseFiles reads them, BatchFiles packs them and BuildPrompt makes the  *)
(* prompts.  The scan does not look at ctx; ParseFiles may answer with     *)
(* some of the files, in any order, when ctx is cancelled.                 *)
(***************************************************************************)
EXTENDS ParseFiles, ScanFiles, BatchFiles, BuildPrompt, SequencesExt

CONSTANTS
    Trees,        \* the clones, each a tree as in ScanFiles
    MaxFiles,     \* cfg.MaxFilesPerRepo
    MaxTokens,    \* cfg.MaxTokensPerBatch
    Sizes,        \* sizes of files, in bytes
    Tiers,        \* tiers of files: no code sets one yet, the tests do
    Sources,      \* texts of files, each a sequence of lines
    Audiences     \* sets of documents that a path may be for

\* max(1, ...)
ASSUME ConfigAssumption == MaxFiles \in Nat \ {0} /\ MaxTokens \in Nat \ {0}
ASSUME TreesAssumption == Trees \subseteq Seq([depth : Nat \ {0}, kind : Kinds])
ASSUME FilesAssumption == Sizes \subseteq Nat /\ Tiers \subseteq Nat

\* Line i comes after "import (", and no ")" between them closes the block.
InBlock(lines, i) ==
    \E k \in 1..(i - 1) : /\ lines[k].text = "open"
                          /\ \A m \in (k + 1)..(i - 1) : lines[m].text # "close"

\* The lines that name an import are those with both words, and in a block all
\* but the brackets and blanks.  No other line of Go looks like these.
ASSUME SourcesAssumption ==
    /\ Sources \subseteq Seq([text : {"open", "single", "text", "close", "blank"},
                              part : {"spec", "other"}])
    /\ \A lines \in Sources : \A i \in DOMAIN lines :
          lines[i].part = "spec" <=>
             lines[i].text = "single" \/ (InBlock(lines, i) /\ lines[i].text = "text")

VARIABLES
    stage,        \* "scan", "scanned", "parse", "batched",
                  \* "generating", "prompt" or "failed"
    tree,         \* the tree that is scanned, empty after the scan
    paths,        \* what ScanFiles has returned, as entries of the tree
    files,        \* parsedFiles
    batches       \* batches

repoVars == <<vars, stage, tree, paths, files, batches>>

RepoInit ==
    /\ Init
    /\ stage = "scan"
    /\ tree \in Trees
    /\ paths = << >>
    /\ files = << >>
    /\ batches = << >>

-----------------------------------------------------------------------------
CancelRepo == Cancel /\ UNCHANGED <<stage, tree, paths, files, batches>>

\* paths, err := ScanFiles(ws.Dir, cfg.MaxFilesPerRepo)
Scan ==
    /\ stage = "scan"
    /\ LET walk == Walk(tree, MaxFiles)
       IN IF walk.end = "error"
          THEN stage' = "failed" /\ UNCHANGED paths
          ELSE stage' = "scanned" /\ paths' = walk.results
    /\ UNCHANGED <<vars, tree, files, batches>>

\* ParseFiles is called.  This instance goes on with the NumPaths paths it is
\* made for; where they are in the tree does not matter from here.
StartParse ==
    /\ stage = "scanned"
    /\ Len(paths) = NumPaths
    /\ stage' = "parse"
    /\ tree' = << >>
    /\ paths' = << >>
    /\ UNCHANGED <<vars, files, batches>>

ParseStep ==
    /\ stage = "parse"
    /\ Step
    /\ UNCHANGED <<stage, tree, paths, files, batches>>

\* batches := BatchFiles(parsedFiles, cfg.MaxTokensPerBatch), for files of any
\* size and tier.
Batch ==
    /\ stage = "parse"
    /\ caller = "returned"
    /\ \E bytes \in [DOMAIN results -> Sizes], tier \in [DOMAIN results -> Tiers] :
         files' = [i \in DOMAIN results |->
                     [path |-> results[i], bytes |-> bytes[i], tier |-> tier[i]]]
    /\ batches' = Batches(files', MaxTokens)
    /\ stage' = IF batches' = << >> THEN "failed" ELSE "batched"
    /\ UNCHANGED <<vars, tree, paths>>

\* The rest of processJob looks at the paths and texts of parsedFiles: the
\* batches, with their sizes and tiers, serve no more.
Generating ==
    /\ stage = "batched"
    /\ stage' = "generating"
    /\ files' = [i \in DOMAIN files |-> [path |-> files[i].path]]
    /\ batches' = << >>
    /\ UNCHANGED <<vars, tree, paths>>

\* req := BuildPrompt(parsedFiles, dt), for files of any text and path.
Prompt ==
    /\ stage = "generating"
    /\ \E lines \in Sources, docs \in [DOMAIN files -> Audiences] :
         files' = [i \in DOMAIN files |->
                     [path |-> files[i].path, docs |-> docs[i], lines |-> lines]]
    /\ stage' = "prompt"
    /\ UNCHANGED <<vars, tree, paths, batches>>

RepoStep == Scan \/ StartParse \/ ParseStep \/ Batch \/ Generating \/ Prompt

RepoNext == CancelRepo \/ RepoStep

\* processJob goes on until it returns; ParseFiles is as fair as it was.
RepoSpec == RepoInit /\ [][RepoNext]_repoVars /\ WF_repoVars(RepoStep)

-----------------------------------------------------------------------------
\* The files that the scan is after, and the directories that stop it: those
\* that are not in a directory to skip, as far as there is room for more files.
Skipped(i) == \E k \in DOMAIN tree : tree[k].kind = "skip" /\ Below(tree, k, i)

Wanted == {i \in DOMAIN tree : tree[i].kind = "file" /\ ~Skipped(i)}

Unreadable ==
    {i \in DOMAIN tree : /\ tree[i].kind = "bad" /\ ~Skipped(i)
                         /\ Cardinality({k \in Wanted : k < i}) < MaxFiles}

\* The members of S up to n as a sequence.
InOrder(S, n) ==
    LET seq[i \in 0..n] ==
          IF i = 0 THEN << >>
          ELSE IF i \in S THEN Append(seq[i - 1], i) ELSE seq[i - 1]
    IN seq[n]

\* What a sequence has at these places.
ItemsAt(s, places) == [k \in DOMAIN places |-> s[places[k]]]

\* sums[i] is the sum of the first i numbers.
SumsOf(numbers) ==
    LET sums[i \in 0..Len(numbers)] == IF i = 0 THEN 0 ELSE sums[i - 1] + numbers[i]
    IN sums

\* The scan finds the first MaxFiles of the wanted files, in the order of the
\* walk, and nothing that is below a skipped directory, however deep and
\* whatever follows it; a directory that cannot be read makes it fail, unless
\* the scan is full before (scanner.go:12-45).
ScanTakesFirst ==
    /\ stage = "scanned" =>
         /\ paths = LET all == InOrder(Wanted, Len(tree))
                    IN SubSeq(all, 1, IF Len(all) < MaxFiles THEN Len(all) ELSE MaxFiles)
         /\ Unreadable = {}
    /\ stage = "failed" /\ tree # << >> => Unreadable # {}

Packed == FlattenSeq([b \in DOMAIN batches |-> batches[b].files])

\* From the slice of paths to the batches no file is lost or doubled, however
\* the readers interleave: every readable file is in one batch, unless the call
\* was cancelled; the more important tiers come first, and files of one tier
\* in the order they arrived in (parser.go:18-68, batcher.go:22-49).
EachFileInABatch ==
    /\ stage = "batched" =>
         /\ Len(Packed) = Len(files)
         /\ \A i, k \in DOMAIN Packed : i < k =>
              \E m, n \in DOMAIN files :
                /\ Packed[i] = files[m] /\ Packed[k] = files[n]
                /\ files[m].tier < files[n].tier
                     \/ (files[m].tier = files[n].tier /\ m < n)
         /\ cancelled \/ {f.path : f \in ToSet(Packed)} = Readable
    /\ stage = "failed" /\ tree = << >> => cancelled \/ Readable = {}

\* A cut of the packed files into batches: the ends of the batches but the last.
Cuts == SUBSET (1..(Len(Packed) - 1))

TokensBetween(from, to) ==
    LET sums == SumsOf([i \in DOMAIN Packed |-> EstimateTokens(Packed[i])])
    IN sums[to] - sums[from - 1]

\* No batch is over the budget but a batch of one file.
Legal(ends) ==
    \A from \in {1} \cup {e + 1 : e \in ends}, to \in ends \cup {Len(Packed)} :
        from < to /\ (\A e \in ends : e < from \/ e >= to)
            => TokensBetween(from, to) <= MaxTokens

\* The batches keep to the budget and count their tokens right, none is empty,
\* and no other way to cut the files in this order takes fewer batches
\* (batcher.go:19-22; in another order there may be one).
PackedTight ==
    stage = "batched" =>
        LET sizes == [b \in DOMAIN batches |-> Len(batches[b].files)]
            ends == SumsOf(sizes)
        IN /\ \A b \in DOMAIN batches :
                /\ sizes[b] > 0
                /\ batches[b].tokens = TokensBetween(ends[b - 1] + 1, ends[b])
           /\ Legal({ends[b] : b \in 1..(Len(batches) - 1)})
           /\ \A cut \in Cuts : Legal(cut) => Cardinality(cut) + 1 >= Len(batches)

SpecLines(lines) ==
    InOrder({i \in DOMAIN lines : lines[i].part = "spec"}, Len(lines))

\* The prompt of a document has a section for each of its files and no other,
\* in their order, with the whole file; but with the lines that name an import,
\* and no other, if the document is the diagram (prompt.go:10-20, 73-102).
PromptsExact ==
    stage = "prompt" =>
        \A doc \in DocTypes :
            LET sections == Sections(files, doc)
                chosen == InOrder({i \in DOMAIN files : doc \in files[i].docs}, Len(files))
            IN /\ Len(sections) = Len(chosen)
               /\ \A k \in DOMAIN sections :
                    LET file == files[chosen[k]]
                    IN /\ sections[k].path = file.path
                       /\ sections[k].lines =
                            IF doc # DocDiagram THEN file.lines
                            ELSE ItemsAt(file.lines, SpecLines(file.lines))

\* A call of ParseFiles does what ParseCall says, and does not go on for ever.
ParseCallSpec == CallSpec /\ (stage = "parse" ~> Outcome # "running")

=============================================================================
