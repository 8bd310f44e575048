----------------------------- MODULE MCPageCache -----------------------------
EXTENDS PageCache

Bytes(n) == [i \in 1 .. n |-> i]
Place(off, src, lookup) == [off |-> off, src |-> src, lookup |-> lookup]

\* A page that is written as a whole; the data of a page, to its end or not, and
\* its deletion; an entry of a lookup page and its deletion.
MCPlaces ==
    {Place(0, Bytes(12), FALSE),
     Place(5, Bytes(7), FALSE), Place(6, Bytes(5), FALSE),
     Place(4, <<0>>, FALSE),
     Place(2, Bytes(2), TRUE), Place(2, <<0, 0>>, TRUE)}
MCSources == {place.src : place \in MCPlaces} \cup {<<7, 8>>}
=============================================================================
