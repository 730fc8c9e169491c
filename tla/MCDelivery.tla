----------------------------- MODULE MCDelivery -----------------------------
\* One member may leave a group of one publisher, or another join; two callbacks
\* at the first, so that one can replace the other.
EXTENDS Delivery

CONSTANTS m1, m2

MCMembers == {m1, m2}
MCFirst == {m1}
MCMocked == {m1}
=============================================================================
