------------------------------- MODULE MCTypes -------------------------------
(* Names and descriptors of zero to five bytes; the byte 1 makes a string   *)
(* look like the start of a struct.  The longest INIT request is as long as *)
(* the buffer, so that the assert on the length fails for it.  A new buffer *)
(* is a page of zeros, or has an old INIT reply in it and ones behind it.   *)
EXTENDS Types

MCStrings == {<< >>, <<97>>, <<1, 1, 0, 0, 0>>}

\* The bytes e and then nothing but the byte c.
Filled(e, c) == [i \in 1..MSG_SIZE |-> IF i <= Len(e) THEN e[i] ELSE c]

Old     == [type |-> INIT_SUCCESSED,
            desc |-> [mr_desc_size |-> 24, pcfg_desc_size |-> 24, descriptors |-> <<97>>]]
MCFresh == {Filled(<< >>, 0), Filled(encode(Old), 1)}
=============================================================================
