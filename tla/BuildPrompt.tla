---------------------------- MODULE BuildPrompt -----------------------------
(***************************************************************************)
(* BuildPrompt: which files, and what of them, is in the prompt of a       *)
(* document.  A line of a file has a text:                                 *)
(*   "open"    import (          "close"  )          "blank"               *)
(*   "single"  import "path"     "text"   any other                        *)
(* and a part of the file that it is in, which only the properties look    *)
(* at: "spec" for the lines that name an import, "other" for the rest.     *)
(***************************************************************************)
EXTENDS Naturals, Sequences

CONSTANT DocTypes     \* gemini.DocReadme, DocQuickStart and DocDiagram

\* The one document that gets the imports of its files and not the files.
DocDiagram == "diagram"

\* Which documents a file is for is a matter of its path: file.docs.
Matches(file, doc) == doc \in file.docs

SelectFiles(files, doc) ==
    LET selected[i \in 0..Len(files)] ==
          IF i = 0 THEN << >>
          ELSE IF Matches(files[i], doc) THEN Append(selected[i - 1], files[i])
                                         ELSE selected[i - 1]
    IN selected[Len(files)]

\* Mutant of Closes: a block has no end.
NeverCloses(scan, line) == FALSE

\* case inBlock && trimmed == ")"
Closes(scan, line) == scan.inBlock /\ line.text = "close"

\* The switch of extractImports, with its cases in their order.
ImportLine(scan, line) ==
    CASE line.text = "open" -> [scan EXCEPT !.inBlock = TRUE]
      [] line.text # "open" /\ Closes(scan, line) -> [scan EXCEPT !.inBlock = FALSE]
      [] OTHER -> IF line.text = "single" \/ (scan.inBlock /\ line.text # "blank")
                  THEN [scan EXCEPT !.out = Append(@, line)]
                  ELSE scan

ExtractImports(lines) ==
    LET scan[i \in 0..Len(lines)] ==
          IF i = 0 THEN [inBlock |-> FALSE, out |-> << >>]
                   ELSE ImportLine(scan[i - 1], lines[i])
    IN scan[Len(lines)].out

\* The sections of the prompt, one per selected file.
Sections(files, doc) ==
    LET selected == SelectFiles(files, doc)
    IN [k \in DOMAIN selected |->
          [path |-> selected[k].path,
           lines |-> IF doc = DocDiagram THEN ExtractImports(selected[k].lines)
                                         ELSE selected[k].lines]]

=============================================================================
