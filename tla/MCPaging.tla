------------------------------ MODULE MCPaging ------------------------------
(* TLC instances of Paging.                                                *)
EXTENDS Paging

CONSTANTS code

\* A program of one code page and a stack, and one with two segments that share
\* a page, which the loader refuses when it comes to the second.
Programs == {<< <<code, 0>>, <<Stack, 0>> >>, << <<code, 1>>, <<code, 1>>, <<Stack, 0>> >>}
=============================================================================
