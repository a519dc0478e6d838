---------------------------- MODULE MCDetectors -----------------------------
EXTENDS Detectors

CONSTANTS f, g, h, k, usage, pred, eq, yocto, result,
          Matches     \* of CallGraphCases

GasCase       == INSTANCE GasCases
PrivilegeCase == INSTANCE PrivilegeCases
ScanCase      == INSTANCE ScanCases
CallGraphCase == INSTANCE CallGraphCases

MCGasFunc          == GasCase!MCFunc
MCGasModules       == GasCase!MCModules
MCPrivilegeFunc    == PrivilegeCase!MCFunc
MCPrivilegeModules == PrivilegeCase!MCModules
MCScanFunc         == ScanCase!MCFunc
MCJobs             == ScanCase!MCJobs
MCCallFunc         == CallGraphCase!MCFunc
MCQueries          == CallGraphCase!MCQueries
=============================================================================
