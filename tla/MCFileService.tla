--------------------------- MODULE MCFileService ---------------------------
(***************************************************************************)
(* The file service with two files, the second one reached by two paths,   *)
(* and requests of one or two bytes.                                       *)
(***************************************************************************)
EXTENDS FileService

TwoPaths == {1, 2}
ThreePaths == {1, 2, 3}
TwoEntries == <<1, 2>>
AliasedEntries == <<1, 2, 2>>

\* No step and no property looks at the answer of an earlier request, or at
\* the probe of an earlier COPY.
WithoutReply == <<tableVars, flashVars, told>>

OneByte == {<<1>>}
OneBit == {<<0>>, <<1>>}
TwoBytes == {<<0, 1>>, <<1>>}
=============================================================================
