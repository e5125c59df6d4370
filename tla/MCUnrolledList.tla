--------------------------- MODULE MCUnrolledList ---------------------------
\* Lists of up to four ids in buckets of two slots: two full buckets, or a
\* full one and a partly used tail, and stale slots behind offset.
EXTENDS UnrolledList

MCKey == {1, 2, 3, 4}
MCElemsInBucket == 2
\* The neighbours the list is intersected with: two of the four ids.
MCOther == {2, 3}
=============================================================================
