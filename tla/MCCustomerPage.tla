--------------------------- MODULE MCCustomerPage ---------------------------
EXTENDS CustomerPage
=============================================================================
