---------------------------- MODULE MCPagerPipe ----------------------------
(* A page of a title, a content larger than the pipe, and a newline.       *)
EXTENDS PagerPipe
MCWrites == <<1, 4, 1>>
=============================================================================
