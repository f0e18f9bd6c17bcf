--------------------------- MODULE MCConfiguration ---------------------------
(* Configuration with three sections, in the order of the source; C++        *)
(* programs do not read the last one.                                       *)
EXTENDS Configuration

MCOrder == <<"kafka", "mysql", "minio">>
=============================================================================
