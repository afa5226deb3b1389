------------------------------ MODULE MCWallets ------------------------------
\* Model checking Wallets: a second name beside the default one.
EXTENDS Wallets

CONSTANTS default, other
=============================================================================
