------------------------------ MODULE MCVendorSync ------------------------------
EXTENDS VendorSync
CONSTANTS ours1, ours2
MCClashes == {<<ours1, 2>>}
=================================================================================
