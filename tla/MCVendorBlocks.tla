----------------------------- MODULE MCVendorBlocks -----------------------------
\* The profiles of three vendors over a device with three raw blocks.
EXTENDS VendorBlocksProperties

Vendors == {SolarEdge, Kostal, Sma}
=============================================================================
