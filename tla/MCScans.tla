------------------------------ MODULE MCScans -------------------------------
EXTENDS Scans

CONSTANTS f, g, h

Cases == INSTANCE ScanCases

MCFunc == Cases!MCFunc
MCJobs == Cases!ExtJobs
=============================================================================
