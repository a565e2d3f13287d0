------------------------------- MODULE Markdown -------------------------------
(***************************************************************************)
(* examples/00_smart_app/ui/chat_bubble_view.cpp: the callbacks that turn  *)
(* what md4c finds in a message into blocks.  md4c is external: it calls   *)
(* them for any well-nested document.  In a tight list the text of an item *)
(* comes without a paragraph around it, in a loose one inside one.         *)
(*                                                                         *)
(* A word is the number of the callback that brought it; "\n" is a line    *)
(* break, and the marks that a span adds are strings.                      *)
(***************************************************************************)
EXTENDS Integers, Sequences, SequencesExt, TLC

CONSTANTS MaxCallbacks, MaxNesting

VARIABLES
  nesting,      \* the document: the blocks md4c is in, outermost first
  spansOpen,    \* and the spans, with what has gone wrong for their style
  callbacks,    \* how many there were
  said,         \* history: each word, where it stands in the document, its style
  blocks, mcurrent, table, row, cell, style, collecting,    \* ParseContext
  lists,        \* ordered_stack and ordered_counter; list_depth is its length
  quote_depth,
  parsed        \* md_parse has returned

ctx  == <<blocks, mcurrent, table, row, cell, style, collecting, lists, quote_depth>>
vars == <<nesting, spansOpen, callbacks, said, ctx, parsed>>

NoBuffer == [kind |-> "none"]
Block(kind, level) ==
  [kind |-> kind, level |-> level, spans |-> <<>>, rows |-> <<>>, number |-> 0]
Fresh == Block("Paragraph", 0)

Init ==
  /\ nesting = <<>> /\ spansOpen = <<>> /\ callbacks = 0 /\ said = <<>> /\ parsed = FALSE
  /\ blocks = <<>> /\ mcurrent = Fresh /\ table = NoBuffer /\ row = NoBuffer /\ cell = NoBuffer
  /\ style = {} /\ collecting = FALSE /\ lists = <<>> /\ quote_depth = 0

-----------------------------------------------------------------------------
(* What the callbacks share.                                               *)

\* append_text's merge: a text of the same style lengthens the last span.
Joined(spans, text, st) ==
  IF spans # <<>> /\ Last(spans).style = st THEN [spans EXCEPT ![Len(spans)].text = Append(@, text)]
                                            ELSE Append(spans, [text |-> <<text>>, style |-> st])

append_text(text, st) ==
  IF cell # NoBuffer THEN cell' = [cell EXCEPT !.spans = Joined(@, text, st)] /\ UNCHANGED mcurrent
  ELSE /\ mcurrent' = IF collecting THEN [mcurrent EXCEPT !.spans = Joined(@, text, st)] ELSE mcurrent
       /\ UNCHANGED cell

\* trim_spans: without the line breaks at the end.
Trimmed(spans) ==
  LET kept(k) == LET texts == spans[k].text
                     ends  == {i \in DOMAIN texts : texts[i] # "\n"} \cup {0}
                 IN  CHOOSE i \in ends : \A j \in ends : j <= i
      trim[n \in 0..Len(spans)] ==
        IF n = 0 THEN <<>> ELSE IF kept(n) = 0 THEN trim[n - 1]
        ELSE [SubSeq(spans, 1, n) EXCEPT ![n].text = SubSeq(@, 1, kept(n))]
  IN  trim[Len(spans)]

\* The blocks when finish_current has run.
Finished ==
  LET b == [mcurrent EXCEPT !.spans = Trimmed(@)]
      k == IF quote_depth > 0 /\ b.kind = "Paragraph" THEN "Quote" ELSE b.kind
  IN  IF collecting /\ b.spans # <<>> THEN Append(blocks, [b EXCEPT !.kind = k]) ELSE blocks

finish_current == blocks' = Finished /\ mcurrent' = Fresh /\ collecting' = FALSE
Collect(b)     == blocks' = Finished /\ mcurrent' = b /\ collecting' = TRUE
-----------------------------------------------------------------------------
(* The document.  An open block has a type; for a list, whether it is loose *)
(* and how many items it had; for an item, whether a block inside it has taken over. *)
Open(type, loose, items, broken) == [type |-> type, loose |-> loose, items |-> items, broken |-> broken]
Top == IF nesting = <<>> THEN Open("doc", FALSE, 0, FALSE) ELSE Last(nesting)

Containers == {"quote", "ul", "ol"}
Leaves     == {"p", "h", "code"}
Lists      == {"ul", "ol"}
Cells      == {"th", "td"}

\* What may begin in what.
Begins(type) ==
  CASE type = "li"   -> Top.type \in Lists
    [] type = "tr"   -> Top.type = "table"
    [] type \in Cells -> Top.type = "tr"
    [] type = "p"    -> Top.type \in {"doc", "quote"} \/ (Top.type = "li" /\ Top.loose)
    [] OTHER         -> Top.type \in {"doc", "quote", "li"}

Holds == Top.type \in Leaves \cup Cells \/ (Top.type = "li" /\ ~Top.loose)

\* A callback, as long as there are enough left to leave what is open.
Called(entered) ==
  /\ ~parsed /\ callbacks' = callbacks + 1 /\ UNCHANGED parsed
  /\ callbacks' + Len(nesting) + Len(spansOpen) + entered <= MaxCallbacks

Enters(type, loose) ==
  /\ Called(1) /\ spansOpen = <<>> /\ Len(nesting) < MaxNesting /\ Begins(type)
  /\ LET broken(o) == IF o.type = "li" /\ type \notin Containers THEN [o EXCEPT !.broken = TRUE] ELSE o
         above == [k \in DOMAIN nesting |->
                     IF type = "li" /\ k = Len(nesting) THEN [nesting[k] EXCEPT !.items = @ + 1] ELSE broken(nesting[k])]
     IN  nesting' = Append(above, Open(type, IF type = "li" THEN Top.loose ELSE loose, IF type = "li" THEN Top.items + 1 ELSE 0, FALSE))
  /\ UNCHANGED <<spansOpen, said, style>>

EnterQuote == Enters("quote", FALSE) /\ quote_depth' = quote_depth + 1
              /\ UNCHANGED <<blocks, mcurrent, table, row, cell, collecting, lists>>

EnterList(type, loose) ==
  /\ Enters(type, loose)
  /\ lists' = Append(lists, [ordered |-> type = "ol", counter |-> 0])
  /\ UNCHANGED <<blocks, mcurrent, table, row, cell, collecting, quote_depth>>

\* Mutation: an item has the number of the one before it.
EnterItemLate ==
  /\ Enters("li", FALSE)
  /\ lists' = [lists EXCEPT ![Len(lists)].counter = IF Last(lists).ordered THEN @ + 1 ELSE @]
  /\ Collect([Block("ListItem", Len(lists)) EXCEPT !.number = Last(lists).counter])
  /\ UNCHANGED <<table, row, cell, quote_depth>>

EnterItem ==
  /\ Enters("li", FALSE)
  /\ lists' = [lists EXCEPT ![Len(lists)].counter = IF Last(lists).ordered THEN @ + 1 ELSE @]
  /\ Collect([Block("ListItem", Len(lists)) EXCEPT !.number = Last(lists').counter])
  /\ UNCHANGED <<table, row, cell, quote_depth>>

EnterLeaf(type) ==
  /\ Enters(type, FALSE)
  /\ Collect(CASE type = "p"    -> Block(IF quote_depth > 0 THEN "Quote" ELSE "Paragraph", 0)
               [] type = "h"    -> Block("Heading", 1)
               [] type = "code" -> Block("CodeBlock", 0))
  /\ UNCHANGED <<table, row, cell, lists, quote_depth>>

Rule ==
  /\ Enters("hr", FALSE)
  /\ blocks' = Append(Finished, Block("Rule", 0)) /\ mcurrent' = Fresh /\ collecting' = FALSE
  /\ UNCHANGED <<table, row, cell, lists, quote_depth>>

EnterTable ==
  /\ Enters("table", FALSE) /\ finish_current /\ table' = Block("Table", 0)
  /\ UNCHANGED <<row, cell, lists, quote_depth>>
EnterRow  == Enters("tr", FALSE) /\ row' = [kind |-> "row", cells |-> <<>>]
             /\ UNCHANGED <<blocks, mcurrent, collecting, table, cell, lists, quote_depth>>
EnterCell(type) ==
  /\ Enters(type, FALSE) /\ cell' = [kind |-> type, spans |-> <<>>]
  /\ UNCHANGED <<blocks, mcurrent, collecting, table, row, lists, quote_depth>>

-----------------------------------------------------------------------------
LeaveBlock ==
  /\ Called(0 - 1) /\ spansOpen = <<>> /\ nesting # <<>>
  /\ Top.type \in Lists => Top.items > 0
  /\ nesting' = Front(nesting) /\ UNCHANGED <<spansOpen, said, style>>
  /\ quote_depth' = IF Top.type = "quote" THEN quote_depth - 1 ELSE quote_depth
  /\ lists' = IF Top.type \in Lists THEN Front(lists) ELSE lists
  /\ CASE Top.type \in Leaves \cup {"li"} -> finish_current /\ UNCHANGED <<table, row, cell>>
       [] Top.type \in Cells -> /\ row' = [row EXCEPT !.cells = Append(@, cell)] /\ cell' = NoBuffer
                                /\ UNCHANGED <<blocks, mcurrent, collecting, table>>
       [] Top.type = "tr"    -> /\ table' = [table EXCEPT !.rows = Append(@, row.cells)] /\ row' = NoBuffer
                                /\ UNCHANGED <<blocks, mcurrent, collecting, cell>>
       [] Top.type = "table" -> /\ blocks' = Append(blocks, table) /\ table' = NoBuffer
                                /\ UNCHANGED <<mcurrent, collecting, row, cell>>
       [] OTHER -> UNCHANGED <<blocks, mcurrent, collecting, table, row, cell>>

\* Spans: an image is marked in the text as well.
SpanTypes == {"strong", "image"}   \* "math" does as "image", the others as "strong"
Marks == [image |-> <<"[image: ", "]">>]

EnterSpan(type) ==
  /\ Called(1) /\ Holds /\ Top.type # "code" /\ Len(spansOpen) < 2
  /\ spansOpen' = Append(spansOpen, [type |-> type, lost |-> FALSE])
  /\ style' = style \cup {type}
  /\ IF type \in DOMAIN Marks THEN append_text(Marks[type][1], style') ELSE UNCHANGED <<mcurrent, cell>>
  /\ UNCHANGED <<nesting, said, blocks, table, row, collecting, lists, quote_depth>>

LeaveSpan ==
  /\ Called(0 - 1) /\ spansOpen # <<>>
  /\ LET type == Last(spansOpen).type
     IN  /\ spansOpen' = [k \in 1..(Len(spansOpen) - 1) |->
                            IF spansOpen[k].type = type THEN [spansOpen[k] EXCEPT !.lost = TRUE] ELSE spansOpen[k]]
         /\ style' = style \ {type}
         /\ IF type \in DOMAIN Marks THEN append_text(Marks[type][2], style) ELSE UNCHANGED <<mcurrent, cell>>
  /\ UNCHANGED <<nesting, said, blocks, table, row, collecting, lists, quote_depth>>

\* Mutation: every text has the style of the document, code or not.
TextPlain(text) ==
  /\ Called(0) /\ Holds
  /\ IF collecting \/ cell # NoBuffer THEN append_text(text, style) ELSE UNCHANGED <<mcurrent, cell>>
  /\ said' = IF text = "\n" THEN said
             ELSE Append(said, [word |-> text, place |-> Top, above |-> nesting,
                                style |-> {spansOpen[k].type : k \in {j \in DOMAIN spansOpen : ~spansOpen[j].lost}}])
  /\ UNCHANGED <<nesting, spansOpen, style, blocks, table, row, collecting, lists, quote_depth>>

\* text_callback.  text is a word, or "\n" for the two kinds of breaks.
Text(text) ==
  /\ Called(0) /\ Holds
  /\ IF collecting \/ cell # NoBuffer
       THEN append_text(text, IF text # "\n" /\ mcurrent.kind = "CodeBlock" THEN style \cup {"code"} ELSE style)
       ELSE UNCHANGED <<mcurrent, cell>>
  /\ said' = IF text = "\n" THEN said
             ELSE Append(said, [word |-> text, place |-> Top, above |-> nesting,
                                style |-> {spansOpen[k].type : k \in {j \in DOMAIN spansOpen : ~spansOpen[j].lost}}])
  /\ UNCHANGED <<nesting, spansOpen, style, blocks, table, row, collecting, lists, quote_depth>>

\* md_parse returns; what has no block becomes one paragraph, unparsed.
Parsed ==
  /\ ~parsed /\ nesting = <<>> /\ parsed' = TRUE
  /\ blocks' = IF Finished = <<>> THEN <<[Fresh EXCEPT !.spans = <<[text |-> <<"raw">>, style |-> {}]>>]>> ELSE Finished
  /\ mcurrent' = Fresh /\ collecting' = FALSE
  /\ UNCHANGED <<nesting, spansOpen, callbacks, said, table, row, cell, style, lists, quote_depth>>

Next ==
  \/ EnterQuote \/ EnterItem \/ Rule \/ EnterTable \/ EnterRow
  \/ \E type \in Lists, loose \in BOOLEAN : EnterList(type, loose)
  \/ \E type \in Leaves : EnterLeaf(type)
  \/ \E type \in Cells : EnterCell(type)
  \/ LeaveBlock \/ (\E type \in SpanTypes : EnterSpan(type)) \/ LeaveSpan
  \/ (\E text \in {ToString(callbacks), "\n"} : Text(text))
  \/ Parsed

Spec == Init /\ [][Next]_vars

-----------------------------------------------------------------------------
TypeOK ==
  /\ quote_depth = Len(SelectSeq(nesting, LAMBDA o : o.type = "quote"))
  /\ Len(lists) = Len(SelectSeq(nesting, LAMBDA o : o.type \in Lists))
  /\ (cell # NoBuffer) = (Top.type \in Cells) /\ parsed \in BOOLEAN

\* The words of the blocks, each with what it is shown as.
WordsOf(spans, kind, level, number) ==
  LET of(s) == LET ws == SelectSeq(s.text, LAMBDA t : t \notin {"\n", "[image: ", "]", "raw"})
               IN  [k \in DOMAIN ws |-> [word |-> ws[k], kind |-> kind, level |-> level, number |-> number, style |-> s.style]]
  IN  FlattenSeq([k \in DOMAIN spans |-> of(spans[k])])
Shown ==
  LET cells(b) == FlattenSeq([r \in DOMAIN b.rows |->
                    FlattenSeq([c \in DOMAIN b.rows[r] |-> WordsOf(b.rows[r][c].spans, b.rows[r][c].kind, 0, 0)])])
  IN  FlattenSeq([k \in DOMAIN blocks |->
        IF blocks[k].kind = "Table" THEN cells(blocks[k])
                                    ELSE WordsOf(blocks[k].spans, blocks[k].kind, blocks[k].level, blocks[k].number)])

\* What the document says of a word.
Quoted(w) == \E k \in DOMAIN w.above : w.above[k].type = "quote"
ListsOf(w) == Len(SelectSeq(w.above, LAMBDA o : o.type \in Lists))
KindOf(w) ==
  CASE w.place.type = "p"    -> IF Quoted(w) THEN "Quote" ELSE "Paragraph"
    [] w.place.type = "h"    -> "Heading"
    [] w.place.type = "code" -> "CodeBlock"
    [] w.place.type = "li"   -> "ListItem"
    [] OTHER                 -> w.place.type
Meant(w) ==
  LET list == w.above[Len(w.above) - 1]
  IN  [word |-> w.word, kind |-> KindOf(w), style |-> w.style \cup IF w.place.type = "code" THEN {"code"} ELSE {},
       level  |-> IF w.place.type = "li" THEN ListsOf(w) ELSE IF w.place.type = "h" THEN 1 ELSE 0,
       number |-> IF w.place.type = "li" /\ list.type = "ol" THEN w.place.items ELSE 0]

(* Every word of a message is shown once, in order, in a block of the kind *)
(* it has in the document, a list item under its depth and its number and  *)
(* a cell as header or not, in the styles of the spans around it; except   *)
(* that the text of a tight item behind a block inside the item (none but  *)
(* a list or a quote around nothing) is lost,                              *)
(* that a loose item is shown as the paragraphs it is made of, and that a  *)
(* style ends with the first span of the same style inside its own.        *)
WordsInPlace ==
  parsed =>
    LET kept == SelectSeq(said, LAMBDA w : ~(w.place.type = "li" /\ w.place.broken))
    IN  Shown = [k \in DOMAIN kept |-> Meant(kept[k])]
=============================================================================
