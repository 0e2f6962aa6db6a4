---------------------------- MODULE MCMediaStore ----------------------------
\* An instance of MediaStore for TLC: two objects of an earlier run and two uploads.
EXTENDS MediaStore

MCKept == <<1, 2>>
MCSize == <<3, 3, 3, 2>>
=============================================================================
