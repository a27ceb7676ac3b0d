------------------------------- MODULE MCPager -------------------------------
(* Instance of Pager: ints of four bits, so that 3 * 6 wraps to 2, which   *)
(* is an offset inside the table.                                          *)
EXTENDS Pager
MCKeys == 1..3
MCValues == 1..2
MCNumbers == {-1, 0, 1, 2, 3, 7}
=============================================================================
