------------------------------ MODULE ThinkTags ------------------------------
(***************************************************************************)
(* Stripping <think>...</think> from streamed text: ThinkTagState of        *)
(* transform/thinking.go.  Text is a sequence of symbols, where a tag may   *)
(* arrive in two pieces: "lt" is "<", "open" is "think>", "close" is        *)
(* "/think>", any other symbol is text.                                     *)
(***************************************************************************)
EXTENDS Naturals, Sequences, SequencesExt

ThinkStart == <<"lt", "open">>
ThinkEnd   == <<"lt", "close">>
Symbols    == {"lt", "open", "close", "v", "w"}

\* A state of the filter and what it has put out: text, and thoughts, which the
\* gateway drops.
NoThought == [thinking |-> FALSE, buf |-> <<>>]
Feeding(ts) == [thinking |-> ts.thinking, buf |-> ts.buf, text |-> <<>>]
ScanState == [thinking : BOOLEAN, buf : Seq(Symbols), text : Seq(Symbols)]

TagsIn(text, tag) == {i \in 1..Len(text) - 1 : <<text[i], text[i + 1]>> = tag}
First(S) == CHOOSE i \in S : \A j \in S : i <= j
Before(text, tag) == SubSeq(text, 1, First(TagsIn(text, tag)) - 1)
After(text, tag)  == SubSeq(text, First(TagsIn(text, tag)) + 2, Len(text))

\* Faulty variant: a tag is looked for in one delta at a time.
NothingHeld(buf) == 0

\* Faulty variant: everything from the first "<" on is held.
HeldFromFirst(buf) == LET lts == {i \in DOMAIN buf : buf[i] = "lt"}
                      IN IF lts = {} THEN 0 ELSE Len(buf) - First(lts) + 1

\* The end of the buffer that may be the beginning of either tag.
Held(buf) == IF buf # <<>> /\ Last(buf) = "lt" THEN 1 ELSE 0

Sought(ts) == IF ts.thinking THEN ThinkEnd ELSE ThinkStart
Show(ts, text) == ts.text \o (IF ts.thinking THEN <<>> ELSE text)

\* Text up to a tag is put out and the tag switches modes; without a tag, all
\* but what may become one.
PassTag(ts) == [thinking |-> ~ts.thinking, buf |-> After(ts.buf, Sought(ts)),
                text |-> Show(ts, Before(ts.buf, Sought(ts)))]
Hold(ts) == LET safe == Len(ts.buf) - Held(ts.buf)
            IN [thinking |-> ts.thinking, buf |-> SubSeq(ts.buf, safe + 1, Len(ts.buf)),
                text |-> Show(ts, SubSeq(ts.buf, 1, safe))]

Scan[ts \in ScanState] ==
  IF TagsIn(ts.buf, Sought(ts)) = {} THEN Hold(ts) ELSE Scan[PassTag(ts)]

ProcessFeed(ts, delta) == Scan[Feeding([ts EXCEPT !.buf = @ \o delta])]

\* What is still held is text after all, unless a thought was left open.
FlushTags(ts) == [thinking |-> ts.thinking, buf |-> <<>>,
                  text |-> IF ts.thinking THEN <<>> ELSE ts.buf]

-----------------------------------------------------------------------------
\* Reference: the text outside thoughts, given all of it at once.  A thought
\* reaches from a start tag to the next end tag, or to the end.
Visible[text \in Seq(Symbols)] ==
  IF TagsIn(text, ThinkStart) = {} THEN text
  ELSE LET rest == After(text, ThinkStart)
       IN Before(text, ThinkStart)
          \o (IF TagsIn(rest, ThinkEnd) = {} THEN <<>> ELSE Visible[After(rest, ThinkEnd)])
=============================================================================
