------------------------ MODULE MCGroupsCachesDonations ------------------------
(* Members of a group, the caches of blocks, and donations.  They share no columns,
   keys or requests, so a behaviour moves one of them while the others are as they
   were at the start; the group and the donations move only where no block was there
   at the start.

   Ann makes the group, with room for two.  Ben has a private profile and is a
   friend of Cat only; Ann and Cat have blocked each other.

   Two requests change Ann's blocks at once, while a message is routed and a request
   looks up whom Ann must not meet.

   There are two orders, and two requests of the provider at once. *)
EXTENDS Groups, BlockCaches, Donations

CONSTANTS ann, ben, cat, r1, f1, b1, b2, order1, order2, hook1, hook2

MCUsers   == {ann, ben, cat}
MCPrivate == {ben}
MCFriends == {{ben, cat}}
MCBlocks  == {{ann, cat}}

MCOthers   == {ben, cat}
MCRouters  == {r1}
MCFillers  == {f1}
MCBlockers == {b1, b2}

MCOrders == {order1, order2}
MCHooks  == {hook1, hook2}

-----------------------------------------------------------------------------
jointVars == <<vars, cacheVars, donationVars>>

NoGroup    == Init /\ UNCHANGED vars
NoBlocks   == CacheInit /\ blockRows = {} /\ UNCHANGED cacheVars
NoDonation == DonationInit /\ UNCHANGED donationVars

JointInit == Init /\ CacheInit /\ DonationInit
JointNext == \/ Next /\ NoBlocks /\ NoDonation
             \/ CacheNext /\ NoGroup /\ NoDonation
             \/ DonationNext /\ NoGroup /\ NoBlocks

JointFairness ==
  /\ \A r \in Routers : WF_jointVars(RouterStep(r) /\ NoGroup /\ NoDonation)
  /\ \A f \in Fillers : WF_jointVars(FillerStep(f) /\ NoGroup /\ NoDonation)
  /\ \A b \in Blockers : WF_jointVars(BlockerStep(b) /\ NoGroup /\ NoDonation)
  /\ \A o \in Others : WF_jointVars(PairExpires(o) /\ NoGroup /\ NoDonation)
  /\ WF_jointVars(SetExpires /\ NoGroup /\ NoDonation)
  /\ \A h \in Hooks : WF_jointVars(HandleReport(h) /\ NoGroup /\ NoBlocks)
  /\ \A r \in Reports :
       WF_jointVars((\E h \in Hooks : Receive(h, r)) /\ NoGroup /\ NoBlocks)

JointSpec == JointInit /\ [][JointNext]_jointVars /\ JointFairness
=============================================================================
