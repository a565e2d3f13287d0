----------------------------- MODULE BubbleLayout -----------------------------
(***************************************************************************)
(* examples/00_smart_app/ui/chat_bubble_view.cpp: how high a message is    *)
(* taken to be (relayout) and what is drawn of it (Canvas::draw), two      *)
(* pieces of code that must agree; and the view, which gives its canvas    *)
(* the height of all messages and keeps it at the bottom.                  *)
(*                                                                         *)
(* A message is a sequence of blocks, see Markdown; of a text only the     *)
(* widths of its characters count, 0 for a line break.                     *)
(***************************************************************************)
EXTENDS Integers, Sequences, FiniteSetsExt, SequencesExt

CONSTANTS
  Widths,       \* of the view
  Height,       \* of the view
  MaxMessages, MaxSteps

kPadding == 14
kGap == 12
kAvatar == 32
kBubblePadX == 12
kBubblePadY == 9
kLineHeight == 20
Scrollbar == 16

AtLeast(n, m) == IF n < m THEN m ELSE n
AtMost(n, m)  == IF n > m THEN m ELSE n
Sum(ns)     == FoldLeft(LAMBDA a, n : a + n, 0, ns)
Highest(ns, least) == FoldLeft(AtLeast, least, ns)
Each(Op(_), s) == [i \in DOMAIN s |-> Op(s[i])]

Block(kind, text, rows) == [kind |-> kind, text |-> text, rows |-> rows]

block_line_height(b) == IF b.kind = "Heading" THEN 28 ELSE kLineHeight
Indent(b) == CASE b.kind = "ListItem" -> 18 [] b.kind = "Quote" -> 10 [] OTHER -> 0

\* Mutation: the character that does not fit goes over the edge.
LayoutLate(text, max) ==
  LET add(c, w) ==
        IF w = 0 THEN [lines |-> Append(c.lines, c.line), line |-> <<>>]
        ELSE IF Sum(c.line) + w > max THEN [lines |-> Append(c.lines, Append(c.line, w)), line |-> <<>>]
        ELSE [c EXCEPT !.line = Append(@, w)]
      c == FoldLeft(add, [lines |-> <<>>, line |-> <<>>], text)
  IN  IF c.line # <<>> \/ c.lines = <<>> THEN Append(c.lines, c.line) ELSE c.lines

-----------------------------------------------------------------------------
\* The lines of a text.  A character that does not fit alone stands alone.
layout_spans(text, max) ==
  LET add(c, w) ==
        IF w = 0 THEN [lines |-> Append(c.lines, c.line), line |-> <<>>]
        ELSE IF Sum(c.line) > 0 /\ Sum(c.line) + w > max THEN [lines |-> Append(c.lines, c.line), line |-> <<w>>]
        ELSE [c EXCEPT !.line = Append(@, w)]
      c == FoldLeft(add, [lines |-> <<>>, line |-> <<>>], text)
  IN  IF c.line # <<>> \/ c.lines = <<>> THEN Append(c.lines, c.line) ELSE c.lines

LinesOf(b, width) == layout_spans(b.text, AtLeast(width - Indent(b), 40))

Columns(table) == Highest(Each(Len, table.rows), 0)
CellWidth(table, width) == AtLeast(width \div Columns(table), 40)
RowHeight(row, cell_w) ==
  Highest(Each(LAMBDA c : Len(layout_spans(c, cell_w - 10)) * kLineHeight + 10, row), kLineHeight + 10)
RowsHeight(table, width) == Sum(Each(LAMBDA r : RowHeight(r, CellWidth(table, width)), table.rows))

measure_table_height(table, width) == RowsHeight(table, width) + 4

\* Mutation: the lines are counted at the width of the whole block.
MeasuredHeightFlush(b, width) ==
  CASE b.kind = "Rule"  -> 12
    [] b.kind = "Table" -> measure_table_height(b, width) + 6
    [] OTHER            -> Len(layout_spans(b.text, AtLeast(width, 40))) * block_line_height(b) + 6

MeasuredHeight(b, width) ==
  CASE b.kind = "Rule"  -> 12
    [] b.kind = "Table" -> measure_table_height(b, width) + 6
    [] OTHER            -> Len(LinesOf(b, width)) * block_line_height(b) + 6
measure_blocks_height(bs, width) == AtLeast(Sum(Each(LAMBDA b : MeasuredHeight(b, width), bs)), kLineHeight)

MeasuredWidth(b, max) ==
  CASE b.kind = "Rule"  -> 100
    [] b.kind = "Table" -> max
    [] OTHER            -> Highest(Each(LAMBDA l : Sum(l) + Indent(b), LinesOf(b, max)), 0)
measure_blocks_width(bs, max) == AtMost(Highest(Each(LAMBDA b : MeasuredWidth(b, max), bs), 50), max)

\* The body of a bubble in a canvas whose content is so wide.
MaxBody(content_w) == AtLeast((content_w * 2) \div 3, 120) - 2 * kBubblePadX
BodyWidth(bs, content_w) == AtLeast(measure_blocks_width(bs, MaxBody(content_w)), 50)
BubbleHeight(bs, content_w) == measure_blocks_height(bs, BodyWidth(bs, content_w)) + 2 * kBubblePadY
MessageHeight(bs, content_w) == AtLeast(BubbleHeight(bs, content_w), kAvatar) + kGap

-----------------------------------------------------------------------------
(* Canvas::draw: from the top of its body, where each block is drawn and   *)
(* how far right and down it reaches: [y, right, bottom].                  *)
DrawBlock(d, b, width) ==
  LET lines == LinesOf(b, width)
      lh == block_line_height(b)
      top == d.y + IF b.kind = "CodeBlock" THEN 4 ELSE 0
      widest == Highest(Each(LAMBDA l : Sum(l) + Indent(b), lines), 0)
  IN  CASE b.kind = "Rule"  -> [y |-> d.y + 12, right |-> width, bottom |-> d.y + 6]
        [] b.kind = "Table" -> [y |-> d.y + RowsHeight(b, width) + 6, right |-> Columns(b) * CellWidth(b, width),
                                bottom |-> d.y + RowsHeight(b, width)]
        [] OTHER            -> [y |-> top + Len(lines) * lh + 6,
                                right  |-> IF b.kind = "CodeBlock" THEN AtLeast(widest, width) ELSE widest,
                                bottom |-> IF b.kind = "CodeBlock" THEN d.y + Len(lines) * lh + 8 ELSE top + Len(lines) * lh]

Drawn(bs, width) ==
  FoldLeft(LAMBDA ds, b : Append(ds, DrawBlock(IF ds = <<>> THEN [y |-> 0, right |-> 0, bottom |-> 0] ELSE Last(ds), b, width)),
           <<>>, bs)

-----------------------------------------------------------------------------
VARIABLES
  messages,             \* messages_: the blocks of each
  layout_pending, bottom_scroll_pending,
  width,                \* w() of the view
  canvas,               \* the canvas: [w, h]
  yposition,            \* of the scroll
  stale,                \* history: the height of the canvas is not that of the messages
  scrolled,             \* history: the user has scrolled since the last scroll_to
  vsteps

vars == <<messages, layout_pending, bottom_scroll_pending, width, canvas, yposition, stale, scrolled, vsteps>>

\* Texts of at most three characters and a break, and blocks of them.
Characters == {<<30, 60, 30>>, <<60, 0, 30>>, <<200>>}
Blocks ==
  {Block(k, t, <<>>) : k \in {"Paragraph", "Heading", "ListItem", "Quote", "CodeBlock"}, t \in Characters}
    \cup {Block("Rule", <<>>, <<>>), Block("Table", <<>>, <<[c \in 1..6 |-> <<30>>]>>)}
    \cup {Block("Table", <<>>, <<<<t, <<30>>>>, <<u>>>>) : t, u \in Characters \cup {<<>>}}
Empty == <<Block("Paragraph", <<30>>, <<>>)>>     \* the " " in place of no text

Code == Block("CodeBlock", <<30>>, <<>>)
Contents ==
  {<<b>> : b \in Blocks} \cup {<<b, Block(k, <<30, 60, 30>>, <<>>)>> : b \in Blocks, k \in {"Paragraph", "CodeBlock"}}
    \cup {<<Code, Code, Code, Code>>}

-----------------------------------------------------------------------------
Content(w) == w - 2 * kPadding

\* relayout, then scroll_to_bottom, which also sets a timer.
CanvasHeight(ms, w) ==
  AtLeast(2 * kPadding + Sum(Each(LAMBDA m : MessageHeight(m, AtLeast(Content(w - Scrollbar), 100)), ms)), Height)
Bottom(h) == AtLeast(h - (Height - Scrollbar), 0)

Relayout(ms) ==
  LET h == CanvasHeight(ms, width)
  IN  /\ canvas' = [w |-> width - Scrollbar, h |-> h] /\ stale' = FALSE
      /\ yposition' = Bottom(h) /\ bottom_scroll_pending' = TRUE /\ scrolled' = FALSE

Step == vsteps < MaxSteps /\ vsteps' = vsteps + 1

Init ==
  /\ messages = <<>> /\ layout_pending = FALSE /\ bottom_scroll_pending = FALSE
  /\ width \in Widths /\ canvas = [w |-> width - Scrollbar, h |-> Height]
  /\ yposition = 0 /\ stale = FALSE /\ scrolled = FALSE /\ vsteps = 0

add_message(m) ==
  /\ Step /\ Len(messages) < MaxMessages
  /\ messages' = Append(messages, m) /\ Relayout(messages')
  /\ UNCHANGED <<layout_pending, width>>

\* The text of a message grows: its blocks become others.
append_to_message(i, m, defer_layout) ==
  /\ Step /\ i \in DOMAIN messages
  /\ messages' = [messages EXCEPT ![i] = m]
  /\ IF defer_layout
       THEN layout_pending' = TRUE /\ stale' = TRUE /\ UNCHANGED <<canvas, yposition, bottom_scroll_pending, scrolled>>
       ELSE Relayout(messages') /\ UNCHANGED layout_pending
  /\ UNCHANGED width

\* Mutation: the view is laid out the next time something is added.
flush_layout_later ==
  /\ Step /\ layout_pending /\ layout_pending' = FALSE
  /\ UNCHANGED <<messages, width, canvas, stale, yposition, bottom_scroll_pending, scrolled>>

flush_layout ==
  /\ Step /\ layout_pending /\ layout_pending' = FALSE
  /\ Relayout(messages) /\ UNCHANGED <<messages, width>>

clear_messages ==
  /\ Step /\ messages' = <<>> /\ Relayout(messages') /\ UNCHANGED <<layout_pending, width>>

\* The timer of 0.01 s.
ScrollAgain ==
  /\ bottom_scroll_pending /\ bottom_scroll_pending' = FALSE
  /\ yposition' = Bottom(canvas.h) /\ scrolled' = FALSE
  /\ UNCHANGED <<messages, layout_pending, width, canvas, stale, vsteps>>

\* FLTK: the user scrolls, or makes the window wider, which leaves the canvas.
UserScrolls ==
  /\ Step /\ yposition > 0 /\ yposition' = 0 /\ scrolled' = TRUE
  /\ UNCHANGED <<messages, layout_pending, bottom_scroll_pending, width, canvas, stale>>
UserResizes(w) ==
  /\ Step /\ w # width /\ width' = w
  /\ UNCHANGED <<messages, layout_pending, bottom_scroll_pending, canvas, yposition, stale, scrolled>>

Next ==
  \/ \E m \in IF messages = <<>> THEN Contents ELSE {Empty, <<Code>>} : add_message(m)
  \/ \E i \in DOMAIN messages, d \in BOOLEAN : append_to_message(i, Append(messages[i], Code), d)
  \/ flush_layout \/ clear_messages \/ ScrollAgain \/ UserScrolls \/ (\E w \in Widths : UserResizes(w))

Spec == Init /\ [][Next]_vars

-----------------------------------------------------------------------------
TypeOK ==
  /\ Len(messages) <= MaxMessages /\ yposition \in Nat
  /\ canvas.h >= Height /\ layout_pending \in BOOLEAN /\ bottom_scroll_pending \in BOOLEAN

Codes(m) == Len(SelectSeq(m, LAMBDA b : b.kind = "CodeBlock"))
Crowded(m, w) == \E i \in DOMAIN m : m[i].kind = "Table" /\ Columns(m[i]) * 40 > w

(* A bubble holds what is drawn in it: the lines that are drawn in the      *)
(* bubble shrunk to its text are those that were measured, and nothing of  *)
(* a block is right of the body or below the bubble, save for a character  *)
(* or a table that is wider than any bubble, and for the four pixels that  *)
(* a code block is drawn lower than it was measured: two of them fit into  *)
(* the border.  Whatever is drawn is on the canvas, and the view shows its *)
(* end, until a layout is put off, or the user scrolls.                    *)
BubblesHold ==
  /\ \A i \in DOMAIN messages :
       LET m == messages[i]
           w == BodyWidth(m, Content(canvas.w))
           high == BubbleHeight(m, Content(canvas.w)) - kBubblePadY
           ds == Drawn(m, w)
       IN  \A k \in DOMAIN m :
             /\ ds[k].bottom <= high + AtLeast(4 * Codes(m) - 11, 0)
             /\ ds[k].right <= w \/ Crowded(m, w) \/ m[k].text = <<200>>
             /\ m[k].kind # "Table" => LinesOf(m[k], w) = LinesOf(m[k], MaxBody(Content(canvas.w)))
             /\ \A l \in DOMAIN LinesOf(m[k], w) : LET line == LinesOf(m[k], w)[l] IN
                   Len(line) <= 1 \/ Sum(line) <= AtLeast(w - Indent(m[k]), 40)
             /\ FlattenSeq(LinesOf(m[k], w)) = SelectSeq(m[k].text, LAMBDA c : c # 0)
  /\ ~stale /\ messages # <<>> =>
       2 * kPadding + Sum(Each(LAMBDA m : MessageHeight(m, Content(canvas.w)), messages)) <= canvas.h
  /\ ~scrolled => yposition = Bottom(canvas.h) \/ messages = <<>>
  /\ stale => layout_pending
=============================================================================
