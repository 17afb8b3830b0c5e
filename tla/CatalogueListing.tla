-------------------------- MODULE CatalogueListing --------------------------
(***************************************************************************)
(* What a catalogue collection promises: one list of its active items, to  *)
(* which a creation appends a hidden item, from which a deletion takes an  *)
(* item out, which a reorder permutes, and of which each item can be shown *)
(* on the web or hidden by itself.                                         *)
(***************************************************************************)
EXTENDS Sequences, SequencesExt

CONSTANT Items      \* samples, or the template lineages of one sample

VARIABLES
    listing,        \* the active items in order
    visible,        \* those that the web shows
    gone            \* the items that were deleted

listingVars == <<listing, visible, gone>>

ListingInit == listing = <<>> /\ visible = {} /\ gone = {}

AppendItem(i) ==
    /\ i \notin ToSet(listing) \cup gone
    /\ listing' = Append(listing, i)
    /\ UNCHANGED <<visible, gone>>

RemoveItem(i) ==
    /\ \E n \in DOMAIN listing :
          listing[n] = i /\ listing' = RemoveAt(listing, n)
    /\ visible' = visible \ {i}
    /\ gone' = gone \cup {i}

Permute ==
    /\ listing' \in SetToSeqs(ToSet(listing))
    /\ UNCHANGED <<visible, gone>>

SetVisible(i) ==
    /\ i \in ToSet(listing)
    /\ visible' \in {visible \cup {i}, visible \ {i}}
    /\ UNCHANGED <<listing, gone>>

ListingNext ==
    \/ Permute
    \/ \E i \in Items : AppendItem(i) \/ RemoveItem(i) \/ SetVisible(i)

ListingSpec == ListingInit /\ [][ListingNext]_listingVars
=============================================================================
