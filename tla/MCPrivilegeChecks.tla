------------------------- MODULE MCPrivilegeChecks -------------------------
EXTENDS PrivilegeChecks

CONSTANTS f, g, h, k, pred, eq, yocto, result

Cases == INSTANCE PrivilegeCases

MCFunc == Cases!MCFunc
MCModules == Cases!MCModules
=============================================================================
