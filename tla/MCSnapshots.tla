---------------------------- MODULE MCSnapshots ----------------------------
EXTENDS Snapshots, TLC

CONSTANTS feature, featuretmp, trunk, trunktmp, topic

RefNames == <<feature, featuretmp, trunk, trunktmp, topic>>

Temps == (feature :> featuretmp) @@ (trunk :> trunktmp)
=============================================================================
