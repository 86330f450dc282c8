--------------------------- MODULE MCMetadataStore ---------------------------
(* The instances of MetadataStore that TLC checks.                           *)
EXTENDS MetadataStore

NoLinks == <<>>
Nothing == {}
=============================================================================
