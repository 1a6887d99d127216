--------------------------- MODULE SearchRegistry ---------------------------
(* The registry of search indexes: for each index what its documents hold    *)
(* (apps/search/documents) and which of these attributes Meilisearch is told *)
(* to filter, sort, count and search by (apps/search/registry).  The order   *)
(* of searchable attributes ranks hits, the order of the others is that of   *)
(* lists in the user interface; both are left out.  So are the related rows  *)
(* that are fetched ahead.                                                   *)
EXTENDS FiniteSets

\* The attributes most indexes have: where the thing is kept.
Place == {"id", "repository_name", "repository_city", "shelfmark"}
Dated == {"date_min", "date_max"}
Described == {"components", "features", "component_features"}

\* What the builders put into a document.
ItemPartFields ==
    Place \cup Dated \cup
    {"display_label", "catalogue_numbers", "date", "type", "format",
     "number_of_images", "image_availability", "first_image_iiif"}

ItemImageFields ==
    Place \cup Described \cup
    {"item_part", "image_iiif", "locus", "date", "type", "number_of_annotations", "positions", "tags"}

ScribeFields == {"id", "name", "period", "scriptorium"}

HandFields == Place \cup {"name", "place", "description", "catalogue_numbers", "date"}

GraphFields ==
    Place \cup Described \cup
    {"item_image", "item_part", "image_iiif", "coordinates", "is_annotated", "display_label", "date",
     "place", "hand_name", "positions", "allograph", "character", "character_type"}

\* Of a text, and of every fragment of it.
SharedFields ==
    Place \cup Dated \cup
    {"item_image", "item_part", "text_type", "date", "catalogue_numbers", "locus", "type", "status",
     "thumbnail_iiif", "annotation_id", "annotation_coordinates"}

TextFields == SharedFields \cup {"content", "language", "places", "people"}
ClauseFields == SharedFields \cup {"clause_type", "content"}
PersonFields == SharedFields \cup {"name", "person_type", "ref"}
PlaceFields == SharedFields \cup {"name", "place_type", "ref"}
-----------------------------------------------------------------------------
ItemParts ==
    [fields |-> ItemPartFields,
     filterable |-> ItemPartFields \ {"display_label", "first_image_iiif"},
     sortable |-> Place \cup Dated \cup {"catalogue_numbers", "type", "number_of_images"},
     facets |-> Dated \cup
       {"image_availability", "type", "repository_city", "repository_name", "format"},
     searchable |-> (Place \ {"id"}) \cup {"display_label", "catalogue_numbers", "type"}]

ItemImages ==
    [fields |-> ItemImageFields,
     filterable |-> ItemImageFields \ {"image_iiif"},
     sortable |-> Place \cup {"type", "number_of_annotations"},
     facets |-> Described \cup {"locus", "type", "repository_city", "repository_name", "tags"},
     searchable |-> {"locus", "repository_name", "shelfmark", "components", "features", "tags"}]

Scribes ==
    [fields |-> ScribeFields,
     filterable |-> ScribeFields,
     sortable |-> {"id", "name", "scriptorium"},
     facets |-> {"scriptorium"},
     searchable |-> {"name", "scriptorium"}]

Hands ==
    [fields |-> HandFields,
     filterable |-> HandFields \ {"description"},
     sortable |-> Place \cup {"name", "place", "catalogue_numbers"},
     facets |-> {"repository_city", "repository_name", "place"},
     searchable |-> {"name", "place", "description", "repository_name", "shelfmark"}]

Graphs ==
    [fields |-> GraphFields,
     filterable |-> GraphFields \ {"item_image", "item_part", "coordinates", "display_label"},
     sortable |-> Place \cup {"allograph"},
     facets |-> Described \cup
       {"repository_city", "repository_name", "allograph", "character", "character_type", "positions"},
     searchable |->
       {"display_label", "repository_name", "shelfmark", "allograph", "character", "hand_name", "components"}]

Texts ==
    [fields |-> TextFields,
     filterable |-> Place \cup Dated \cup
       {"text_type", "date", "type", "status", "language", "places", "people"},
     sortable |-> Place \cup Dated \cup {"text_type"},
     facets |-> Dated \cup
       {"text_type", "type", "repository_city", "repository_name", "status", "language", "places", "people"},
     searchable |->
       {"content", "repository_name", "shelfmark", "catalogue_numbers", "text_type", "places", "people"}]

\* The indexes of fragments differ in the attributes of their own.
OfFragments(all, own, kind) ==
    [fields |-> all,
     filterable |-> Place \cup Dated \cup own \cup {"text_type", "type", "status"},
     sortable |-> Place \cup Dated \cup (own \ {"ref"}),
     facets |-> Dated \cup {kind, "text_type", "type", "repository_city", "repository_name", "status"},
     searchable |-> own \cup {"repository_name", "shelfmark"}]

Clauses ==
    LET clauses == OfFragments(ClauseFields, {"clause_type"}, "clause_type")
    IN [clauses EXCEPT !.searchable = @ \cup {"content"}]
People == OfFragments(PersonFields, {"name", "person_type", "ref"}, "person_type")
Places == OfFragments(PlaceFields, {"name", "place_type", "ref"}, "place_type")
-----------------------------------------------------------------------------
Registry ==
    [item_parts |-> ItemParts, item_images |-> ItemImages, scribes |-> Scribes, hands |-> Hands,
     graphs |-> Graphs, texts |-> Texts, clauses |-> Clauses, people |-> People, places |-> Places]

\* Every name in a list is one of an attribute that the documents have, and
\* what is counted by default is filterable: a name that is misspelt in one
\* place filters nothing, or fails at the first search.
ASSUME RegistryAssumption ==
    \A i \in DOMAIN Registry :
        /\ Registry[i].filterable \cup Registry[i].sortable \cup Registry[i].searchable
             \subseteq Registry[i].fields
        /\ Registry[i].facets \subseteq Registry[i].filterable
=============================================================================
