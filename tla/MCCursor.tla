------------------------------ MODULE MCCursor ------------------------------
(***************************************************************************)
(* Model-checking instance of Cursor: one series of two pages, a writer   *)
(* thread c1 and a reader thread c2.                                      *)
(***************************************************************************)
EXTENDS Cursor, TLC

CONSTANTS p1, p2, c1, c2

\* Page index of a series whose samples 1 and 3 were appended and split
\* into two pages.
MCEntries == << [first_timestamp |-> 1, page_id |-> p1],
                [first_timestamp |-> 3, page_id |-> p2] >>

MCInitPages == [p \in {p1, p2} |->
                  IF p = p1 THEN << Sample(1, 0) >> ELSE << Sample(3, 0) >>]

\* Page index of a series whose first page holds samples 1 and 4 and whose
\* second page starts at 6: writers can insert 2 and 4 into the first
\* page, so seekTo searches pages of up to four samples with ties.
MCWideEntries == << [first_timestamp |-> 1, page_id |-> p1],
                    [first_timestamp |-> 6, page_id |-> p2] >>

MCWideInitPages == [p \in {p1, p2} |->
                      IF p = p1 THEN << Sample(1, 0), Sample(4, 0) >>
                                ELSE << Sample(6, 0) >>]

=============================================================================
