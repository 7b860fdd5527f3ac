--------------------------- MODULE MCResourceMap ---------------------------
\* A small instance of ResourceMap: two rows, a document for each and one of
\* a type that no row has.
EXTENDS ResourceMap

MCRows == {"outpatient", "residential"}
MCDocuments == {"clinic", "house", "hotline"}
MCTypeOf == [d \in MCDocuments |->
                CASE d = "clinic" -> "outpatient"
                  [] d = "house" -> "residential"
                  [] OTHER -> "other"]
=============================================================================
