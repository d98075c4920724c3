--------------------------- MODULE MCCollections ---------------------------
(* One collection beside __root__, one folder and one request.              *)
EXTENDS SidebarDrag
CONSTANTS f, r
=============================================================================
