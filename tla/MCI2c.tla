-------------------------------- MODULE MCI2c --------------------------------
\* I2c for TLC: the drivers of the HAL's interface, and the one of dw_apb_i2c.
EXTENDS I2c

AnyDriver == {"ok", "fail", "pending"}
DwApbDriver == {"fail", "pending"}
=============================================================================
