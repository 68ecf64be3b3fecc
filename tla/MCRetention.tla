----------------------------- MODULE MCRetention ------------------------------
EXTENDS RetentionProperties
===============================================================================
