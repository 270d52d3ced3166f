------------------------------ MODULE MCV2Feed ------------------------------
\* V2Feed with short times: a fetch may use up a whole window.
EXTENDS V2Feed
=============================================================================
