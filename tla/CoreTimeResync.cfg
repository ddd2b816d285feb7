SPECIFICATION FairTimeSpec
CONSTANTS
 ValidFrom = 50
 FirstBoot = 56
 Horizon = 59
 MaxHalfSaved = 1
PROPERTY Resyncs
