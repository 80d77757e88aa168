---------------------------- MODULE MCMobileAccess ----------------------------
EXTENDS MobileAccess
=============================================================================
