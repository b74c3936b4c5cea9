--------------------------------- MODULE Pem ---------------------------------
(***************************************************************************)
(* How the quinn server reads its certificate and key files (src/main.rs): *)
(* pem_sections goes through the lines of a file once and collects its     *)
(* sections.  What a line of a body says does not matter, so a body is the *)
(* numbers of its lines; "junk" is a line that base64 cannot hold.         *)
(***************************************************************************)
EXTENDS Integers, Sequences, FiniteSets

CONSTANTS
  Labels,       \* what stands behind BEGIN and END
  MaxLines      \* bound: the lines of a file

VARIABLES
  lines,        \* the lines that have been read
  label,        \* the label of the open section, {} when none is open
  body,         \* the lines of its body
  sections,     \* the sections that are complete
  failed        \* pem_sections has bailed out
pemVars == <<lines, label, body, sections, failed>>

Line(kind, text) == [kind |-> kind, text |-> text]
Lines == {Line(kind, l) : kind \in {"BEGIN", "END"}, l \in Labels}
         \cup {Line("text", "base64"), Line("text", "junk")}

PemInit ==
  /\ lines = <<>>
  /\ label = {}
  /\ body = <<>>
  /\ sections = <<>>
  /\ failed = FALSE

Decodable(b) == \A i \in DOMAIN b : lines[b[i]].text # "junk"

(* Mutated: the body of a section that was never ended is kept. *)
BeginKeepsBody(l) ==
  /\ label' = {l}
  /\ UNCHANGED <<body, sections, failed>>

(* A section that is open is dropped without a word. *)
Begin(l) ==
  /\ label' = {l} /\ body' = <<>>
  /\ UNCHANGED <<sections, failed>>

End(l) ==
  IF label = {l} /\ Decodable(body)
  THEN /\ sections' = Append(sections, [label |-> l, body |-> body])
       /\ label' = {} /\ body' = <<>>
       /\ UNCHANGED failed
  ELSE failed' = TRUE /\ UNCHANGED <<label, body, sections>>

(* Text outside of a section is skipped. *)
Text ==
  /\ body' = IF label = {} THEN body ELSE Append(body, Len(lines'))
  /\ UNCHANGED <<label, sections, failed>>

NextLine ==
  /\ ~failed /\ Len(lines) < MaxLines
  /\ \E line \in Lines :
       /\ lines' = Append(lines, line)
       /\ CASE line.kind = "BEGIN" -> Begin(line.text)
            [] line.kind = "END" -> End(line.text)
            [] OTHER -> Text

PemSpec == PemInit /\ [][NextLine]_pemVars

-----------------------------------------------------------------------------
(* A section of the file, told from its lines alone: a BEGIN and an END    *)
(* with no other delimiter in between.                                     *)
Delimiter(i) == lines[i].kind \in {"BEGIN", "END"}
Section(i, j) ==
  /\ i < j /\ lines[i].kind = "BEGIN" /\ lines[j].kind = "END"
  /\ \A k \in i + 1 .. j - 1 : ~Delimiter(k)
Ends == {j \in DOMAIN lines : lines[j].kind = "END"}

(* pem_sections loses no section that is ended and joins no two: while it  *)
(* has not failed, its sections are, in order, exactly the lines between a *)
(* BEGIN and the END that follows it, both with the same label, and every  *)
(* END of the file ends one.                                               *)
SectionsAreWhole ==
  ~failed =>
    /\ Len(sections) = Cardinality(Ends)
    /\ \A j \in Ends : \E i \in DOMAIN lines :
         LET n == Cardinality({e \in Ends : e <= j})
         IN /\ Section(i, j) /\ lines[i].text = lines[j].text
            /\ sections[n] = [label |-> lines[j].text,
                              body  |-> [k \in 1 .. j - i - 1 |-> i + k]]
=============================================================================
