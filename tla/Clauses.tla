------------------------------ MODULE Clauses ------------------------------
(***************************************************************************)
(* How a policy text is cut up, for rules (rule_extraction/service.py) and *)
(* for reviews (review/service.py). A text is a sequence of lines:         *)
(*   kind   "blank", "chapter", "article", "paragraph", "number", "plain": *)
(*          what the line starts with                                      *)
(*   mark   the number of a chapter, an article, a paragraph or an item    *)
(*   says   what the line says, size: in how many characters               *)
(*   ends   whether a full stop or a semicolon ends the line (there is     *)
(*          none within it)                                                *)
(* A clause is where it was found, its chapter (0: none), and its lines.   *)
(***************************************************************************)
EXTENDS Naturals, FiniteSetsExt, SequencesExt

LineKinds == {"blank", "chapter", "article", "paragraph", "number", "plain"}

IsText(text) == text \in Seq(Range(text)) /\ \A i \in DOMAIN text : text[i].kind \in LineKinds

NoClause == [locator |-> <<>>, chapter |-> 0, lines |-> <<>>]

\* A reader: the clauses it has finished, the one it is in, and the chapter.
Reader == [clauses |-> <<>>, open |-> NoClause, chapter |-> 0]

\* The clauses, with the one that is open.
Finished(reader) ==
  IF reader.open = NoClause THEN reader.clauses ELSE Append(reader.clauses, reader.open)

Start(reader, locator, i) ==
  [reader EXCEPT !.clauses = Finished(reader),
     !.open = [locator |-> locator, chapter |-> reader.chapter, lines |-> <<i>>]]

\* Mutated: the last line of a clause is all that is left of it.
Overwrite(reader, i) == [reader EXCEPT !.open.lines = <<i>>]

GoOn(reader, i) == [reader EXCEPT !.open.lines = Append(@, i)]

\* Line i: a heading leaves the clause open that comes before it, and only a text
\* that starts without a mark has a clause that is located by its line.
ReadLine(text, marks, reader, i) ==
  LET line == text[i]
  IN CASE line.kind = "blank" -> reader
       [] line.kind = "chapter" -> [reader EXCEPT !.chapter = line.mark]
       [] line.kind \in marks -> Start(reader, <<line.kind, line.mark>>, i)
       [] OTHER -> IF reader.open = NoClause THEN Start(reader, <<"line", i>>, i)
                   ELSE GoOn(reader, i)

Segments(text, marks) ==
  LET read[n \in 0 .. Len(text)] ==
        IF n = 0 THEN Reader ELSE ReadLine(text, marks, read[n - 1], n)
  IN Finished(read[Len(text)])

\* A full stop closes a sentence, and nothing else does.
ReadSentence(text, reader, i) ==
  IF text[i].kind = "blank" THEN reader
  ELSE IF \/ reader.open = NoClause
          \/ text[Last(reader.open.lines)].ends
       THEN Start(reader, <<"sentence", Len(Finished(reader)) + 1>>, i)
       ELSE GoOn(reader, i)

Sentences(text) ==
  LET read[n \in 0 .. Len(text)] ==
        IF n = 0 THEN Reader ELSE ReadSentence(text, read[n - 1], n)
  IN Finished(read[Len(text)])

\* segment_clauses: a text of one clause without an article number is cut into
\* sentences, headings and all.
Clauses(text) ==
  LET clauses == Segments(text, {"article", "paragraph", "number"})
  IN IF /\ Len(clauses) <= 1
        /\ \A i \in DOMAIN clauses : clauses[i].locator[1] \notin {"article", "paragraph"}
     THEN Sentences(text)
     ELSE clauses

\* In how many characters these lines say what they say, joined by spaces.
Length(text, lines) ==
  MapThenSumSet(LAMBDA i : text[i].size, lines) + Cardinality(lines) - 1

\* The elements of a sequence that are in S.
Only(seq, S) ==
  LET only[n \in 0 .. Len(seq)] ==
        IF n = 0 THEN <<>>
        ELSE IF seq[n] \in S THEN Append(only[n - 1], seq[n]) ELSE only[n - 1]
  IN only[Len(seq)]

\* segment_policy_text, which knows no paragraphs: what is shorter than four
\* characters is no article.
Articles(text) ==
  LET marked == Segments(text, {"article", "number"})
  IN Only(marked, {clause \in Range(marked) : Length(text, ToSet(clause.lines)) >= 4})

\* What a clause says.
Says(text, clause) == [k \in DOMAIN clause.lines |-> text[clause.lines[k]].says]

-----------------------------------------------------------------------------
(* What reading a text comes to.                                           *)

Increasing(s) == \A i, j \in DOMAIN s : i < j => s[i] < s[j]

\* Of these lines, those from h on, up to the next start.
Under(lines, starts, h) ==
  {i \in lines : h <= i /\ \A j \in starts : j <= i => j <= h}

\* These lines are cut at the starts: there is a clause for each start that is kept, in
\* order, and it has all the lines under its start, in order.
CutAt(clauses, lines, starts, kept) ==
  /\ {clauses[k].lines[1] : k \in DOMAIN clauses} = kept
  /\ \A j, k \in DOMAIN clauses : j < k => clauses[j].lines[1] < clauses[k].lines[1]
  /\ \A k \in DOMAIN clauses :
       /\ Increasing(clauses[k].lines)
       /\ ToSet(clauses[k].lines) = Under(lines, starts, clauses[k].lines[1])

\* The lines that are neither blank nor a heading, and those of them where a clause
\* starts: at a mark, and at the first.
Body(text) == {i \in DOMAIN text : text[i].kind \notin {"blank", "chapter"}}

Starts(text, marks) ==
  {i \in Body(text) : text[i].kind \in marks \/ \A j \in Body(text) : i <= j}

\* The lines that are not blank, and those where a sentence starts.
Written(text) == {i \in DOMAIN text : text[i].kind # "blank"}

SentenceStarts(text) ==
  {i \in Written(text) : \A j \in Written(text) :
     j < i => text[j].ends \/ \E k \in Written(text) : j < k /\ k < i}

\* The chapter that line i stands in.
ChapterAt(text, i) ==
  LET above == {j \in 1..i : text[j].kind = "chapter"}
  IN IF above = {} THEN 0 ELSE text[Max(above)].mark

\* A clause has the number of its first line, or is located by that line, and has the
\* chapter it starts in.
Located(text, marks, clause) ==
  LET start == clause.lines[1]
  IN /\ clause.locator = IF text[start].kind \in marks
                         THEN <<text[start].kind, text[start].mark>>
                         ELSE <<"line", start>>
     /\ clause.chapter = ChapterAt(text, start)

WellLocated(text, marks, clauses) ==
  \A k \in DOMAIN clauses : Located(text, marks, clauses[k])

\* The articles for reviews are what starts at a mark, or with the text, and is long
\* enough, whole and located; shorter ones are dropped.
ArticlesReadWell(text) ==
  LET marks  == {"article", "number"}
      starts == Starts(text, marks)
  IN /\ CutAt(Articles(text), Body(text), starts,
              {h \in starts : Length(text, Under(Body(text), starts, h)) >= 4})
     /\ WellLocated(text, marks, Articles(text))

\* The clauses for rules are all that starts so, at paragraphs too; or, where only one
\* does, which is no article or paragraph, the sentences.
ClausesReadWell(text) ==
  LET marks  == {"article", "paragraph", "number"}
      starts == Starts(text, marks)
  IN IF \E i \in starts : (\E j \in starts : i # j) \/ text[i].kind \in {"article", "paragraph"}
     THEN /\ CutAt(Clauses(text), Body(text), starts, starts)
          /\ WellLocated(text, marks, Clauses(text))
     ELSE /\ CutAt(Clauses(text), Written(text), SentenceStarts(text), SentenceStarts(text))
          /\ \A k \in DOMAIN Clauses(text) : Clauses(text)[k].locator = <<"sentence", k>>

ReadsWell(text) == ArticlesReadWell(text) /\ ClausesReadWell(text)
=============================================================================
